---- MODULE Spec2Model ----
(***************************************************************************)
(* Embedding partition store, partition loader, FAISS index builder and    *)
(* hybrid search engine of the multimodal retrieval system, with the HTTP  *)
(* helper of the ingestors and the ingestion route.                        *)
(*                                                                         *)
(* Numbers stand for floating point values: the float64 grid is the        *)
(* integers and the float32 grid is the even integers, so that a cast to   *)
(* float32 is exact on float32 values and rounds the others.               *)
(* Path strings that the code splits ("org/model") are tuples of their     *)
(* "/"-separated segments.                                                 *)
(***************************************************************************)
EXTENDS Integers, Sequences, FiniteSets, TLC

VARIABLES
    hasPyarrow,   \* environment: `import pyarrow` succeeds
    manifest,     \* [Keys -> manifest.json of {root}/{kind}/{model}]
    partFiles,    \* [Keys -> [PartPaths -> {part}.npz / {part}.parquet]]
    indexFiles,   \* [Keys -> index.faiss and ids.npy of {index_dir}/{kind}/{model}]
    saved,        \* history: [Keys -> the successful save_part calls, in call order]
    builtFrom,    \* history: [Keys -> what the loader returned to the last completed build]
    ret,          \* outcome of the most recent call, when it was a store, loader or builder call
    faissCache,   \* HybridSearchEngine._faiss_cache
    loads,        \* history: [Keys -> number of index loads by FaissSearchBackend.__init__]
    last,         \* trace of the most recent call, when it was HybridSearchEngine.search
    http,         \* the call of BaseIngestor.http_get_json in progress
    ingest,       \* the request POST /ingest/all in progress
    inflight      \* [Procs -> the in-flight call of a request handler or builder process]

vars == <<hasPyarrow, manifest, partFiles, indexFiles, saved, builtFrom, ret,
          faissCache, loads, last, http, ingest, inflight>>

storeVars == <<manifest, partFiles, saved>>
engineVars == <<faissCache, loads>>
sideVars == <<http, ingest, inflight>>
pipelineVars == <<hasPyarrow, storeVars, indexFiles, builtFrom, ret, engineVars, last>>

----------------------------------------------------------------------------
(* Bounds and input sets *)

MaxSaves == 2
MaxTopK == 3
MaxPage == 2
MaxSize == 2
MaxRetries == 3

DEFAULT_TEXT_MODEL == "all-MiniLM-L6-v2"

KeySeq == << <<"text", DEFAULT_TEXT_MODEL>>, <<"text", "m2">> >>
Keys == {KeySeq[i] : i \in 1..Len(KeySeq)}
Parts == {"A", "B"}
Exts == {"npz", "parquet"}
PartPaths == Parts \X Exts
Fmts == {"auto", "parquet", "npz"}
Metrics == {"ip", "l2", "cosine"}

NoFile == [exists |-> FALSE]
NoCall == [op |-> "none", status |-> "none"]

----------------------------------------------------------------------------
(* numpy arrays: shape, row data, dtype *)

Array(shape, data, dtype) == [shape |-> shape, data |-> data, dtype |-> dtype]

Ndim(a) == Len(a.shape)

\* round to the float32 grid (ties to even mantissa)
F32(x) ==
    IF x % 2 = 0 THEN x
    ELSE IF (x \div 2) % 2 = 0 THEN x - 1 ELSE x + 1

MapSeq(s, Op(_)) == [i \in 1..Len(s) |-> Op(s[i])]

F32Row(r) == MapSeq(r, F32)

\* ndarray.astype(np.float32)
AsType32(a) ==
    Array(a.shape,
          IF Ndim(a) = 2 THEN MapSeq(a.data, F32Row) ELSE MapSeq(a.data, F32),
          "float32")

\* ndarray.tolist(): nested Python lists of floats; the shape of an array
\* without rows is not kept
ToList(a) == a.data

\* np.asarray(list, dtype=np.float32)
AsArray32(l) ==
    IF Len(l) = 0 THEN Array(<<0>>, <<>>, "float32")
    ELSE Array(<<Len(l), Len(l[1])>>, MapSeq(l, F32Row), "float32")

RECURSIVE Concat(_)
Concat(ss) == IF Len(ss) = 0 THEN <<>> ELSE Head(ss) \o Concat(Tail(ss))

RECURSIVE SumSeq(_)
SumSeq(s) == IF Len(s) = 0 THEN 0 ELSE Head(s) + SumSeq(Tail(s))

\* np.atleast_2d, as np.vstack applies it
Rows2D(a) == IF Ndim(a) = 1 THEN <<a.data>> ELSE a.data
Width2D(a) == IF Ndim(a) = 1 THEN a.shape[1] ELSE a.shape[2]

\* np.vstack(arrs) of a non-empty list: raises ValueError when widths differ
VStackOk(arrs) == \A i \in 1..Len(arrs) : Width2D(arrs[i]) = Width2D(arrs[1])
VStack(arrs) ==
    LET rows == Concat(MapSeq(arrs, Rows2D))
    IN  Array(<<Len(rows), Width2D(arrs[1])>>, rows, "float32")

----------------------------------------------------------------------------
(* Inputs of save_part: id list and vectors, with len(ids) == rows(vectors) *)
(* (the precondition of save_part) whenever the vectors are a matrix.       *)

Batches ==
    { [ids |-> <<"d1", "d2">>, vectors |-> Array(<<2, 2>>, <<<<2, 0>>, <<0, 2>>>>, "float32")],
      [ids |-> <<"d3">>,       vectors |-> Array(<<1, 2>>, <<<<2, 2>>>>, "float32")],
      [ids |-> <<>>,           vectors |-> Array(<<0, 2>>, <<>>, "float32")],
      [ids |-> <<"d2">>,       vectors |-> Array(<<1, 1>>, <<<<4>>>>, "float32")],
      [ids |-> <<"d1", "d3">>, vectors |-> Array(<<2, 2>>, <<<<1, 2>>, <<3, 0>>>>, "float64")],
      [ids |-> <<"d1", "d2">>, vectors |-> Array(<<2>>, <<2, 4>>, "float32")],
      [ids |-> <<"d1">>,       vectors |-> Array(<<1, 1, 2>>, <<<<<<2, 4>>>>>>, "float32")] }

----------------------------------------------------------------------------
(* EmbeddingStore *)

\* the encoding "auto" resolves to
ResolveFmt(fmt) ==
    IF fmt = "auto" THEN (IF hasPyarrow THEN "parquet" ELSE "npz") ELSE fmt

\* _write_npz: np.savez_compressed(ids=object array, vecs=float32 matrix)
WriteNpz(doc_ids, vectors) ==
    [exists |-> TRUE, ids |-> doc_ids, vecs |-> AsType32(vectors)]

\* _write_parquet: pa.table needs pyarrow and columns of one length
WriteParquetError(doc_ids, vectors) ==
    IF ~hasPyarrow THEN "ImportError"
    ELSE IF Len(doc_ids) # Len(ToList(vectors)) THEN "ArrowInvalid"
    ELSE "ok"

WriteParquet(doc_ids, vectors) ==
    [exists |-> TRUE, doc_id |-> doc_ids, vector |-> ToList(vectors)]

ManifestEntry(part, count, dim) == [part |-> part, count |-> count, dim |-> dim]

\* man.get("parts", []) / data.setdefault("parts", [])
ManifestParts(man) == IF "parts" \in DOMAIN man THEN man.parts ELSE <<>>

\* a manifest update that writes the new descriptor alone
UpdateManifestOverwrite(man, kind, model, part, count, dim) ==
    [exists |-> TRUE, kind |-> kind, model |-> model,
     parts |-> <<ManifestEntry(part, count, dim)>>]

\* _update_manifest: append to the parts of an existing manifest, or create it
UpdateManifest(man, kind, model, part, count, dim) ==
    IF man.exists
    THEN [exists |-> TRUE, kind |-> man.kind, model |-> man.model,
          parts |-> Append(ManifestParts(man), ManifestEntry(part, count, dim))]
    ELSE [exists |-> TRUE, kind |-> kind, model |-> model,
          parts |-> <<ManifestEntry(part, count, dim)>>]

\* how save_part ends: the rank check, then the write of the partition file
SavePartStatus(b, fmt) ==
    IF Ndim(b.vectors) # 2 THEN "ValueError"
    ELSE IF ResolveFmt(fmt) = "parquet" THEN WriteParquetError(b.ids, b.vectors)
    ELSE "ok"

\* the files of all (kind, model) directories, with the history of the calls
EmptyStore ==
    [manifest |-> [k \in Keys |-> NoFile],
     partFiles |-> [k \in Keys |-> [p \in PartPaths |-> NoFile]],
     saved |-> [k \in Keys |-> <<>>]]

\* a save_part that leaves a partition file that is already there as it is
SavePartWrittenKeepFirst(st, key, part, b, fmt) ==
    LET f == ResolveFmt(fmt)
        file == IF f = "parquet" THEN WriteParquet(b.ids, b.vectors)
                ELSE WriteNpz(b.ids, b.vectors)
    IN  [manifest |-> [st.manifest EXCEPT ![key] =
            UpdateManifest(@, key[1], key[2], part,
                           b.vectors.shape[1], b.vectors.shape[2])],
         partFiles |-> [st.partFiles EXCEPT ![key][<<part, f>>] =
                           IF @.exists THEN @ ELSE file],
         saved |-> [st.saved EXCEPT ![key] =
            Append(@, [part |-> part, ids |-> b.ids,
                       vectors |-> b.vectors, fmt |-> f])]]

\* the files after a save_part that raised nothing: the partition file is
\* written, then the manifest is updated
SavePartWritten(st, key, part, b, fmt) ==
    LET f == ResolveFmt(fmt)
        file == IF f = "parquet" THEN WriteParquet(b.ids, b.vectors)
                ELSE WriteNpz(b.ids, b.vectors)
    IN  [manifest |-> [st.manifest EXCEPT ![key] =
            UpdateManifest(@, key[1], key[2], part,
                           b.vectors.shape[1], b.vectors.shape[2])],
         partFiles |-> [st.partFiles EXCEPT ![key][<<part, f>>] = file],
         saved |-> [st.saved EXCEPT ![key] =
            Append(@, [part |-> part, ids |-> b.ids,
                       vectors |-> b.vectors, fmt |-> f])]]

\* a save_part that opens its output file before it looks at the vectors
SavePartStoreOpenFirst(st, key, part, b, fmt) ==
    IF SavePartStatus(b, fmt) # "ok"
    THEN [st EXCEPT !.partFiles[key][<<part, ResolveFmt(fmt)>>] = NoFile]
    ELSE SavePartWritten(st, key, part, b, fmt)

\* save_part(kind, model, part, doc_ids, vectors, fmt) on the files st
SavePartStore(st, key, part, b, fmt) ==
    IF SavePartStatus(b, fmt) # "ok" THEN st
    ELSE SavePartWritten(st, key, part, b, fmt)

\* number of successful save_part calls so far
SavedCount == SumSeq([i \in 1..Len(KeySeq) |-> Len(saved[KeySeq[i]])])

\* one call of save_part
SavePart(key, part, b, fmt) ==
    LET st == SavePartStore([manifest |-> manifest, partFiles |-> partFiles,
                             saved |-> saved], key, part, b, fmt)
    IN  /\ SavedCount < MaxSaves
        /\ manifest' = st.manifest
        /\ partFiles' = st.partFiles
        /\ saved' = st.saved
        /\ ret' = [op |-> "save_part", key |-> key, status |-> SavePartStatus(b, fmt),
                   out |-> <<part, ResolveFmt(fmt)>>, ndim |-> Ndim(b.vectors)]
        /\ last' = NoCall
        /\ UNCHANGED <<hasPyarrow, indexFiles, builtFrom, engineVars, sideVars>>

----------------------------------------------------------------------------
(* Partition loader *)

\* _load_part
LoadPart(ext, file) ==
    IF ext = "npz"
    THEN [ids |-> file.ids, vecs |-> AsType32(file.vecs)]
    ELSE [ids |-> file.doc_id, vecs |-> AsArray32(file.vector)]

\* a loader that looks for the parquet file first
PartExtParquetFirst(files, part) ==
    IF files[<<part, "parquet">>].exists THEN "parquet"
    ELSE IF files[<<part, "npz">>].exists THEN "npz"
    ELSE "none"

\* the file load_embeddings_dir reads for a manifest entry, and how it fails
PartExt(files, part) ==
    IF files[<<part, "npz">>].exists THEN "npz"
    ELSE IF files[<<part, "parquet">>].exists THEN "parquet"
    ELSE "none"

\* a loader that takes a missing partition for an unsupported format
PartErrorUnsupported(files, part) ==
    IF PartExt(files, part) = "none" THEN "ValueError"
    ELSE IF PartExt(files, part) = "parquet" /\ ~hasPyarrow THEN "ImportError"
    ELSE "ok"

PartError(files, part) ==
    IF PartExt(files, part) = "none" THEN "FileNotFoundError"
    ELSE IF PartExt(files, part) = "parquet" /\ ~hasPyarrow THEN "ImportError"
    ELSE "ok"

\* what np.concatenate of an empty list does
EmptyResultRaises == [status |-> "ValueError"]

\* the result for a manifest without parts
EmptyResult == [status |-> "ok", ids |-> <<>>, vecs |-> Array(<<0, 0>>, <<>>, "float32")]

Raise(e) == [status |-> e]

\* load_embeddings_dir(root, kind, model) over a manifest and part files
LoadEmbeddings(man, files) ==
    IF ~man.exists THEN Raise("FileNotFoundError")
    ELSE
      LET parts == ManifestParts(man)
          bad == {i \in 1..Len(parts) : PartError(files, parts[i].part) # "ok"}
          first == CHOOSE i \in bad : \A j \in bad : i <= j
          loadedAt(i) == LoadPart(PartExt(files, parts[i].part),
                                  files[<<parts[i].part, PartExt(files, parts[i].part)>>])
          all_ids == [i \in 1..Len(parts) |-> loadedAt(i).ids]
          all_vecs == [i \in 1..Len(parts) |-> loadedAt(i).vecs]
      IN  IF bad # {} THEN Raise(PartError(files, parts[first].part))
          ELSE IF Len(parts) = 0 THEN EmptyResult
          ELSE IF ~VStackOk(all_vecs) THEN Raise("ValueError")
          ELSE [status |-> "ok", ids |-> Concat(all_ids), vecs |-> VStack(all_vecs)]

load_embeddings_dir(key) == LoadEmbeddings(manifest[key], partFiles[key])

LoadEmbeddingsDir(key) ==
    /\ ret' = [op |-> "load_embeddings_dir", key |-> key] @@ load_embeddings_dir(key)
    /\ last' = NoCall
    /\ UNCHANGED <<hasPyarrow, storeVars, indexFiles, builtFrom, engineVars, sideVars>>

----------------------------------------------------------------------------
(* Index builder *)

\* a build_faiss_index whose row order depends on more than its arguments
BuildFaissIndexUnstable(vecs, metric) ==
    IF Ndim(vecs) # 2 THEN [status |-> "ValueError"]
    ELSE IF metric \notin {"ip", "l2"} THEN [status |-> "ValueError"]
    ELSE [status |-> "ok",
          index |-> [d |-> vecs.shape[2], metric |-> metric, ntotal |-> vecs.shape[1],
                     xb |-> IF \E k \in Keys : loads[k] > 0
                            THEN [i \in 1..Len(vecs.data) |->
                                     vecs.data[Len(vecs.data) + 1 - i]]
                            ELSE vecs.data]]

\* a build_faiss_index that falls back to inner product
BuildFaissIndexDefaultIp(vecs, metric) ==
    IF Ndim(vecs) # 2 THEN [status |-> "ValueError"]
    ELSE [status |-> "ok",
          index |-> [d |-> vecs.shape[2], metric |-> IF metric = "l2" THEN "l2" ELSE "ip",
                     ntotal |-> vecs.shape[1], xb |-> vecs.data]]

\* build_faiss_index(vecs, metric): a flat index holding the rows of vecs
BuildFaissIndex(vecs, metric) ==
    IF Ndim(vecs) # 2 THEN Raise("ValueError")
    ELSE IF metric \notin {"ip", "l2"} THEN Raise("ValueError")
    ELSE [status |-> "ok",
          index |-> [d |-> vecs.shape[2], metric |-> metric,
                     ntotal |-> vecs.shape[1], xb |-> vecs.data]]

\* save_faiss_index: index.faiss and ids.npy, both replaced
SaveFaissIndex(index, ids) ==
    [index |-> [exists |-> TRUE, index |-> index],
     ids |-> [exists |-> TRUE, ids |-> ids]]

\* load_faiss_index(dir_out, kind, model)
LoadFaissIndex(files) ==
    IF ~files.index.exists \/ ~files.ids.exists THEN Raise("FileNotFoundError")
    ELSE [status |-> "ok", index |-> files.index.index, ids |-> files.ids.ids]

\* the rows a manifest counts, over all its parts
ManifestRows(man) ==
    SumSeq([i \in 1..Len(ManifestParts(man)) |-> ManifestParts(man)[i].count])

\* build_from_embeddings(emb_root, out_dir, kind, model, metric)
BuildFromEmbeddings(key, metric) ==
    LET loaded == load_embeddings_dir(key)
        built == IF loaded.status = "ok" THEN BuildFaissIndex(loaded.vecs, metric)
                 ELSE loaded
    IN  /\ IF built.status = "ok"
           THEN /\ indexFiles' = [indexFiles EXCEPT ![key] =
                                     SaveFaissIndex(built.index, loaded.ids)]
                /\ builtFrom' = [builtFrom EXCEPT ![key] =
                                     [built |-> TRUE, ids |-> loaded.ids,
                                      vecs |-> loaded.vecs, metric |-> metric,
                                      rows |-> ManifestRows(manifest[key])]]
           ELSE UNCHANGED <<indexFiles, builtFrom>>
        /\ ret' = [op |-> "build_from_embeddings", key |-> key,
                   status |-> built.status, metric |-> metric]
        /\ last' = NoCall
        /\ UNCHANGED <<hasPyarrow, storeVars, engineVars, sideVars>>

----------------------------------------------------------------------------
(* Collaborators of the search engine: query encoder and metadata store.   *)
(* Optional values are sets with at most one element ({} is None).         *)

Opt(S) == {{}} \cup {{x} : x \in S}
The(o) == CHOOSE x \in o : TRUE

\* SbertTextEngine.name of "sentence-transformers/{model_name or DEFAULT}":
\* the last "/"-separated segment
ResolveModelName(model) ==
    LET given == IF model = {} \/ model = {<<"">>} THEN <<DEFAULT_TEXT_MODEL>>
                 ELSE The(model)
        model_name == <<"sentence-transformers">> \o given
    IN  model_name[Len(model_name)]

\* the sentence-transformers models that can be loaded, and their embedding
KnownModels == {DEFAULT_TEXT_MODEL, "m2"}

QueryVector(text, name) ==
    IF name = DEFAULT_TEXT_MODEL
    THEN (IF text = "" THEN <<0, 2>> ELSE <<2, 0>>)
    ELSE (IF text = "" THEN <<2>> ELSE <<4>>)

\* _encode_text_query(query, model_name) -> (used_model_name, vector)
EncodeTextQuery(query, model) ==
    LET name == ResolveModelName(model)
    IN  IF name \notin KnownModels THEN Raise("OSError")
        ELSE [status |-> "ok", used_model |-> name, vec |-> QueryVector(query, name)]

\* rows of the documents table, by id
Documents ==
    [id \in {"d1", "d2"} |->
        IF id = "d1"
        THEN [doc_id |-> "d1", kind |-> "text", source |-> "arxiv", source_id |-> "a1",
              year |-> {2001}, method |-> {"dft"}, title |-> "t1"]
        ELSE [doc_id |-> "d2", kind |-> "text", source |-> "arxiv", source_id |-> "a2",
              year |-> {}, method |-> {"md"}, title |-> "t2"]]

Coalesce(o, default) == IF o = {} THEN default ELSE The(o)

\* the WHERE clause built by _fetch_metadata
RowMatches(row, doc_ids, filters) ==
    LET f_year_from == IF filters = {} THEN {} ELSE The(filters).year_from
        f_year_to == IF filters = {} THEN {} ELSE The(filters).year_to
        f_method == IF filters = {} THEN {} ELSE The(filters).method
    IN  /\ \E i \in 1..Len(doc_ids) : doc_ids[i] = row.doc_id
        /\ f_year_from # {} => Coalesce(row.year, 0) >= The(f_year_from)
        /\ f_year_to # {} => Coalesce(row.year, 9999) <= The(f_year_to)
        /\ (f_method # {} /\ The(f_method) # "") => row.method = f_method

\* _fetch_metadata(doc_ids, filters): the rows returned, by id
FetchMetadata(doc_ids, filters) ==
    IF Len(doc_ids) = 0 THEN [id \in {} |-> {}]
    ELSE [id \in {d \in DOMAIN Documents : RowMatches(Documents[d], doc_ids, filters)}
            |-> Documents[id]]

----------------------------------------------------------------------------
(* FaissSearchBackend *)

RECURSIVE Dot(_, _)
Dot(a, b) == IF Len(a) = 0 THEN 0 ELSE a[1] * b[1] + Dot(Tail(a), Tail(b))

RECURSIVE SqDist(_, _)
SqDist(a, b) ==
    IF Len(a) = 0 THEN 0
    ELSE (a[1] - b[1]) * (a[1] - b[1]) + SqDist(Tail(a), Tail(b))

\* the score of every row against the query: inner product or squared distance
RowScores(index, q) ==
    [r \in 1..index.ntotal |->
        IF index.metric = "ip" THEN Dot(q, index.xb[r]) ELSE SqDist(q, index.xb[r])]

\* row r is ranked before row s: better score, ties by lower row
RankedBefore(metric, score, r, s) ==
    IF metric = "ip" THEN score[r] > score[s] \/ (score[r] = score[s] /\ r < s)
    ELSE score[r] < score[s] \/ (score[r] = score[s] /\ r < s)

\* the rows best-first: position j holds the row that j - 1 rows are ranked before
Ranking(metric, score) ==
    [j \in 1..Len(score) |->
        CHOOSE r \in 1..Len(score) :
            Cardinality({s \in 1..Len(score) : RankedBefore(metric, score, s, r)}) = j - 1]

\* score of a result slot without a match
NoMatchScore(metric) == IF metric = "ip" THEN -(10 * 10 * 10) ELSE 10 * 10 * 10

\* the first top_k rows of the ranking and their scores; idxs are 0-based
\* rows, -1 where the index has fewer than top_k rows
TopK(metric, score, order, top_k) ==
    [status |-> "ok",
     idxs |-> [j \in 1..top_k |-> IF j <= Len(order) THEN order[j] - 1 ELSE -1],
     scores |-> [j \in 1..top_k |->
                    IF j <= Len(order) THEN score[order[j]] ELSE NoMatchScore(metric)]]

\* FaissSearchBackend.search(query_vec, top_k) -> (idxs, scores)
\* (a singleton set binds a value that is computed once)
BackendSearch(backend, query_vec, top_k) ==
    IF Len(query_vec) # backend.index.d THEN Raise("AssertionError")
    ELSE The({ The({ TopK(backend.index.metric, score, order, top_k) :
                        order \in {Ranking(backend.index.metric, score)} }) :
                  score \in {RowScores(backend.index, query_vec)} })

\* FaissSearchBackend.__init__: loads the index and the id mapping
NewBackend(key, loaded, inst) ==
    [exists |-> TRUE, kind |-> key[1], model |-> key[2],
     index |-> loaded.index, ids |-> loaded.ids, inst |-> inst]

----------------------------------------------------------------------------
(* HybridSearchEngine *)

Max(a, b) == IF a >= b THEN a ELSE b
Min(a, b) == IF a <= b THEN a ELSE b

\* a slice that starts one element late
SliceLate(s, start, end) == SubSeq(s, start + 2, Min(end, Len(s)))

\* Python list slice s[start:end], 0 <= start <= end
Slice(s, start, end) == SubSeq(s, start + 1, Min(end, Len(s)))

EmptyMap == [id \in {} |-> {}]

\* a search that has not got anywhere yet
NoTrace(req) ==
    [op |-> "search", req |-> req, status |-> "none", encoderCalls |-> 0, loaderCalls |-> 0,
     constructed |-> FALSE, key |-> <<>>, backend |-> NoFile, backendCalls |-> <<>>,
     idxs |-> <<>>, scores |-> <<>>, doc_ids |-> <<>>,
     metaCalls |-> <<>>, meta_map |-> EmptyMap, kept |-> <<>>,
     response |-> [total |-> 0, page |-> 0, size |-> 0, items |-> <<>>]]

SearchHit(di, sc, m) ==
    [doc_id |-> di, score |-> sc, title |-> m.title, year |-> m.year,
     source |-> m.source, kind |-> m.kind, method |-> m.method]

\* a join that keeps candidates without a metadata record, zero-filled
RECURSIVE JoinZeroFill(_, _, _)
JoinZeroFill(doc_ids, scores, meta_map) ==
    IF Len(doc_ids) = 0 THEN <<>>
    ELSE LET di == Head(doc_ids)
             rest == JoinZeroFill(Tail(doc_ids), Tail(scores), meta_map)
             none == [title |-> "", year |-> {}, source |-> "", kind |-> "", method |-> {}]
         IN  IF di \notin DOMAIN meta_map
             THEN <<SearchHit(di, Head(scores), none)>> \o rest
             ELSE <<SearchHit(di, Head(scores), meta_map[di])>> \o rest

\* a join that pairs the scores with the candidates it keeps
RECURSIVE JoinScoresOfKept(_, _, _)
JoinScoresOfKept(doc_ids, scores, meta_map) ==
    IF Len(doc_ids) = 0 THEN <<>>
    ELSE LET di == Head(doc_ids)
         IN  IF di \notin DOMAIN meta_map
             THEN JoinScoresOfKept(Tail(doc_ids), scores, meta_map)
             ELSE <<SearchHit(di, Head(scores), meta_map[di])>> \o
                  JoinScoresOfKept(Tail(doc_ids), Tail(scores), meta_map)

\* the join loop of search: candidates with a metadata record, in order
RECURSIVE Join(_, _, _)
Join(doc_ids, scores, meta_map) ==
    IF Len(doc_ids) = 0 THEN <<>>
    ELSE LET di == Head(doc_ids)
             rest == Join(Tail(doc_ids), Tail(scores), meta_map)
         IN  IF di \notin DOMAIN meta_map THEN rest
             ELSE <<SearchHit(di, Head(scores), meta_map[di])>> \o rest

\* a _get_backend that constructs a backend on every call
GetBackendAlwaysNew(key, loaded, inst) == NewBackend(key, loaded, inst)

\* the backend _get_backend returns, given what load_faiss_index would return
GetBackend(key, loaded, inst) ==
    IF faissCache[key].exists THEN faissCache[key] ELSE NewBackend(key, loaded, inst)

TotalLoads == SumSeq([i \in 1..Len(KeySeq) |-> loads[KeySeq[i]]])

\* the modalities search can encode a query for
SupportedKind(kind) == kind = "text"

\* an over-fetch count that ignores the page
OverFetchTopKOnly(req) == req.top_k

\* an over-fetch count for one page, whichever page is asked for
OverFetchOnePage(req) == Max(req.top_k, req.size)

\* the over-fetch count passed to the backend
OverFetch(req) == Max(req.top_k, req.page * req.size)

\* [str(backend.ids[i]) for i in idxs]: a negative index counts from the end
CandidateIdsKeepSentinels(ids, idxs) ==
    IF \E p \in 1..Len(idxs) : idxs[p] >= Len(ids) \/ idxs[p] < -Len(ids)
    THEN Raise("IndexError")
    ELSE [status |-> "ok",
          doc_ids |-> [p \in 1..Len(idxs) |->
                          IF idxs[p] >= 0 THEN ids[idxs[p] + 1]
                          ELSE ids[Len(ids) + idxs[p] + 1]]]

\* [str(backend.ids[i]) for i in idxs if i >= 0]
CandidateIds(ids, idxs) ==
    LET valid == SelectSeq(idxs, LAMBDA i : i >= 0)
    IN  IF \E p \in 1..Len(valid) : valid[p] >= Len(ids) THEN Raise("IndexError")
        ELSE [status |-> "ok", doc_ids |-> [p \in 1..Len(valid) |-> ids[valid[p] + 1]]]

\* search, from the join on: the hits kept, the total and the page
Respond(t, doc_ids, scores) ==
    LET req == t.req
        start == (req.page - 1) * req.size
        end == start + req.size
    IN  The({ [t EXCEPT !.status = "ok", !.kept = kept,
                        !.response = [total |-> Len(kept), page |-> req.page,
                                      size |-> req.size,
                                      items |-> Slice(kept, start, end)]] :
                 kept \in {Join(doc_ids, SubSeq(scores, 1, Len(doc_ids)), t.meta_map)} })

\* search, from the metadata lookup on
Lookup(t, doc_ids, scores) ==
    The({ Respond([t EXCEPT !.doc_ids = doc_ids, !.meta_map = meta_map,
                            !.metaCalls = IF Len(doc_ids) = 0 THEN <<>>
                                          ELSE <<[doc_ids |-> doc_ids,
                                                  filters |-> t.req.filters]>>],
                  doc_ids, scores) :
             meta_map \in {FetchMetadata(doc_ids, t.req.filters)} })

\* search, from the result of the backend on
Candidates(t, found) ==
    IF found.status # "ok" THEN [t EXCEPT !.status = found.status]
    ELSE The({ IF c.status # "ok"
               THEN [t EXCEPT !.idxs = found.idxs, !.scores = found.scores,
                              !.status = c.status]
               ELSE Lookup([t EXCEPT !.idxs = found.idxs, !.scores = found.scores],
                           c.doc_ids, found.scores) :
                  c \in {CandidateIds(t.backend.ids, found.idxs)} })

\* search, from the call of the backend on
Retrieve(t, query_vec) ==
    The({ Candidates([t EXCEPT !.backendCalls = <<OverFetch(t.req)>>], found) :
             found \in {BackendSearch(t.backend, query_vec, OverFetch(t.req))} })

\* search, from _get_backend on
WithBackend(t, key, query_vec) ==
    LET cached == faissCache[key].exists
        loaded == LoadFaissIndex(indexFiles[key])
        t2 == [t EXCEPT !.key = key, !.loaderCalls = IF cached THEN 0 ELSE 1]
    IN  IF ~cached /\ loaded.status # "ok" THEN [t2 EXCEPT !.status = loaded.status]
        ELSE The({ Retrieve([t2 EXCEPT !.constructed = ~cached, !.backend = backend],
                            query_vec) :
                      backend \in {GetBackend(key, loaded, TotalLoads + 1)} })

\* search, from the encoding of the query on
Encoded(req) ==
    The({ IF enc.status # "ok"
          THEN [NoTrace(req) EXCEPT !.encoderCalls = 1, !.status = enc.status]
          ELSE WithBackend([NoTrace(req) EXCEPT !.encoderCalls = 1],
                           <<req.kind, enc.used_model>>, enc.vec) :
             enc \in {EncodeTextQuery(IF req.query = {} THEN "" ELSE The(req.query),
                                      req.model)} })

\* a search that encodes the query before it looks at the modality
SearchTraceEncodeFirst(req) ==
    IF ~SupportedKind(req.kind)
    THEN [NoTrace(req) EXCEPT !.encoderCalls = 1, !.status = "ValueError"]
    ELSE Encoded(req)

\* HybridSearchEngine.search(req), as the trace of its calls and its result
SearchTrace(req) ==
    IF ~SupportedKind(req.kind) THEN [NoTrace(req) EXCEPT !.status = "ValueError"]
    ELSE Encoded(req)

\* one call of HybridSearchEngine.search
Search(req) ==
    \E t \in {SearchTrace(req)} :
        /\ last' = t
        /\ faissCache' = IF t.constructed
                         THEN [faissCache EXCEPT ![t.key] = t.backend] ELSE faissCache
        /\ loads' = IF t.constructed THEN [loads EXCEPT ![t.key] = @ + 1] ELSE loads
        /\ ret' = NoCall
        /\ UNCHANGED <<hasPyarrow, storeVars, indexFiles, builtFrom, sideVars>>

Filters ==
    { {},
      {[year_from |-> {2000}, year_to |-> {}, method |-> {}]} }

\* requests: every paging of an unfiltered query and the pages of size one
\* of a filtered query against the default model, and one request for each
\* other model, a missing query and each modality without an encoder
Request(kind, query, model, top_k, page, size, filters) ==
    [kind |-> kind, query |-> query, model |-> model, top_k |-> top_k,
     page |-> page, size |-> size, filters |-> filters]

Requests ==
    [kind : {"text"}, query : {{"q1"}}, model : {{}},
     top_k : 1..MaxTopK, page : 1..MaxPage, size : 1..MaxSize, filters : {{}}]
    \cup
    [kind : {"text"}, query : {{"q1"}}, model : {{}},
     top_k : {MaxTopK}, page : 1..MaxPage, size : {1}, filters : Filters \ {{}}]
    \cup
    { Request("text", {"q1"}, {<<"org", "m2">>}, MaxTopK, 1, MaxSize, {}),
      Request("text", {"q1"}, {<<"nope">>}, MaxTopK, 1, MaxSize, {}),
      Request("text", {}, {<<"">>}, MaxTopK, 1, MaxSize, {}),
      Request("simulation", {"q1"}, {}, MaxTopK, 1, MaxSize, {}),
      Request("timeseries", {}, {}, MaxTopK, 1, MaxSize, {}) }

----------------------------------------------------------------------------
(* Searches in flight on one engine. POST /search is a plain function, so  *)
(* each request runs engine.search on a thread of the server's pool; the   *)
(* statements of _get_backend interleave between threads.                  *)

Procs == {"p1", "p2"}
NoCalls == [p \in Procs |-> [pc |-> "idle"]]

SearchRequests ==
    { Request("text", {"q1"}, {}, MaxTopK, 1, MaxSize, {}),
      Request("text", {"q1"}, {<<"org", "m2">>}, MaxTopK, 1, MaxSize, {}),
      Request("text", {"q1"}, {<<"nope">>}, MaxTopK, 1, MaxSize, {}),
      Request("simulation", {"q1"}, {}, MaxTopK, 1, MaxSize, {}) }

\* a thread that has finished its search
Finished(p, t) ==
    /\ inflight' = [inflight EXCEPT ![p] = [pc |-> "done", result |-> t]]
    /\ last' = t

\* a test of the cache made again when the backend is about to be constructed
AbsentNow(p) == ~faissCache[inflight[p].t.key].exists

\* what `key not in self._faiss_cache` gave when this thread evaluated it
Absent(p) == inflight[p].absent

\* search up to _get_backend: the modality and the encoding of the query
SearchBegin(p, req) ==
    /\ inflight[p].pc \in {"idle", "done"}
    /\ IF ~SupportedKind(req.kind)
       THEN Finished(p, [NoTrace(req) EXCEPT !.status = "ValueError"])
       ELSE \E enc \in {EncodeTextQuery(IF req.query = {} THEN "" ELSE The(req.query),
                                        req.model)} :
               IF enc.status # "ok"
               THEN Finished(p, [NoTrace(req) EXCEPT !.encoderCalls = 1,
                                                     !.status = enc.status])
               ELSE /\ inflight' = [inflight EXCEPT ![p] =
                                       [pc |-> "check",
                                        t |-> [NoTrace(req) EXCEPT
                                                  !.encoderCalls = 1,
                                                  !.key = <<req.kind, enc.used_model>>],
                                        vec |-> enc.vec]]
                    /\ last' = NoCall
    /\ ret' = NoCall
    /\ UNCHANGED <<hasPyarrow, storeVars, indexFiles, builtFrom, engineVars, http, ingest>>

\* _get_backend: `if key not in self._faiss_cache`
GetBackendCheck(p) ==
    /\ inflight[p].pc = "check"
    /\ inflight' = [inflight EXCEPT ![p] =
                       [pc |-> "branch", t |-> inflight[p].t, vec |-> inflight[p].vec,
                        absent |-> ~faissCache[inflight[p].t.key].exists]]
    /\ last' = NoCall /\ ret' = NoCall
    /\ UNCHANGED <<hasPyarrow, storeVars, indexFiles, builtFrom, engineVars, http, ingest>>

\* _get_backend: FaissSearchBackend(index_dir, kind, model), not yet stored
GetBackendConstruct(p) ==
    LET c == inflight[p]
        key == c.t.key
        loaded == LoadFaissIndex(indexFiles[key])
    IN  /\ c.pc = "branch" /\ Absent(p)
        /\ IF loaded.status # "ok"
           THEN /\ Finished(p, [c.t EXCEPT !.loaderCalls = 1, !.status = loaded.status])
                /\ UNCHANGED loads
           ELSE /\ inflight' = [inflight EXCEPT ![p] =
                                   [pc |-> "assign",
                                    t |-> [c.t EXCEPT !.loaderCalls = 1,
                                                      !.constructed = TRUE],
                                    vec |-> c.vec, absent |-> c.absent,
                                    built |-> NewBackend(key, loaded, TotalLoads + 1)]]
                /\ loads' = [loads EXCEPT ![key] = @ + 1]
                /\ last' = NoCall
        /\ ret' = NoCall
        /\ UNCHANGED <<hasPyarrow, storeVars, indexFiles, builtFrom, faissCache, http, ingest>>

\* _get_backend: `self._faiss_cache[key] = ...`
GetBackendAssign(p) ==
    LET c == inflight[p]
    IN  /\ c.pc = "assign"
        /\ faissCache' = [faissCache EXCEPT ![c.t.key] = c.built]
        /\ inflight' = [inflight EXCEPT ![p].pc = "return"]
        /\ last' = NoCall /\ ret' = NoCall
        /\ UNCHANGED <<hasPyarrow, storeVars, indexFiles, builtFrom, loads, http, ingest>>

\* _get_backend: the key was in the cache
GetBackendCached(p) ==
    /\ inflight[p].pc = "branch" /\ ~Absent(p)
    /\ inflight' = [inflight EXCEPT ![p].pc = "return"]
    /\ last' = NoCall /\ ret' = NoCall
    /\ UNCHANGED <<hasPyarrow, storeVars, indexFiles, builtFrom, engineVars, http, ingest>>

\* _get_backend: `return self._faiss_cache[key]`, and the rest of search
GetBackendReturn(p) ==
    LET c == inflight[p]
    IN  /\ c.pc = "return"
        /\ Finished(p, Retrieve([c.t EXCEPT !.backend = faissCache[c.t.key]], c.vec))
        /\ ret' = NoCall
        /\ UNCHANGED <<hasPyarrow, storeVars, indexFiles, builtFrom, engineVars, http, ingest>>

----------------------------------------------------------------------------
(* save_part calls in flight on one store directory, each writing a part   *)
(* of its own. _update_manifest is exists(), read_text(), write_text();    *)
(* write_text opens the file for writing, which empties it, then writes.   *)

PartOf(p) == IF p = "p1" THEN "A" ELSE "B"

\* the batches of one document: a row of width 2, a row of width 1, and
\* vectors that are no matrix
SaveBatches == {b \in Batches : Len(b.ids) = 1}

\* a manifest.json that does not hold a whole JSON document
Torn == [exists |-> TRUE, torn |-> TRUE]
IsTorn(man) == "torn" \in DOMAIN man

\* a save_part that has not written its partition file when it comes to
\* the manifest
PartFileDeferred(files, path, file) == files

\* the partition file of a call, written before _update_manifest is called
PartFileWritten(files, path, file) == [files EXCEPT ![path] = file]

\* the call is over
SaveDone(c, status) ==
    [pc |-> "done", key |-> c.key, part |-> c.part, entry |-> c.entry,
     alone |-> c.alone, status |-> status]

\* save_part up to _update_manifest: the rank check and the partition file
SaveBegin(p, key, b, fmt) ==
    LET part == PartOf(p)
        f == ResolveFmt(fmt)
        status == SavePartStatus(b, fmt)
        busy == {q \in Procs \ {p} : inflight[q].pc \notin {"idle", "done"}}
        c == [key |-> key, part |-> part, alone |-> busy = {},
              entry |-> IF Ndim(b.vectors) = 2
                        THEN ManifestEntry(part, b.vectors.shape[1], b.vectors.shape[2])
                        ELSE ManifestEntry(part, 0, 0)]
    IN  /\ inflight[p].pc \in {"idle", "done"}
        /\ SavedCount < MaxSaves
        /\ IF status # "ok"
           THEN /\ inflight' = [inflight EXCEPT ![p] = SaveDone(c, status)]
                /\ UNCHANGED <<partFiles, saved>>
           ELSE /\ partFiles' = [partFiles EXCEPT ![key] =
                                     PartFileWritten(@, <<part, f>>,
                                         IF f = "parquet" THEN WriteParquet(b.ids, b.vectors)
                                         ELSE WriteNpz(b.ids, b.vectors))]
                /\ saved' = [saved EXCEPT ![key] =
                                 Append(@, [part |-> part, ids |-> b.ids,
                                            vectors |-> b.vectors, fmt |-> f])]
                /\ inflight' = [q \in Procs |->
                                   IF q = p THEN [c EXCEPT !.alone = busy = {}] @@ [pc |-> "exists"]
                                   ELSE IF q \in busy THEN [inflight[q] EXCEPT !.alone = FALSE]
                                   ELSE inflight[q]]
        /\ ret' = NoCall /\ last' = NoCall
        /\ UNCHANGED <<hasPyarrow, manifest, indexFiles, builtFrom, engineVars, http, ingest>>

\* _update_manifest: `if man.exists()`, and the data of a new manifest
ManifestExists(p) ==
    LET c == inflight[p]
    IN  /\ c.pc = "exists"
        /\ inflight' = [inflight EXCEPT ![p] =
              IF manifest[c.key].exists THEN [c EXCEPT !.pc = "read"]
              ELSE [c EXCEPT !.pc = "write"] @@
                   [data |-> UpdateManifest(NoFile, c.key[1], c.key[2], c.entry.part,
                                            c.entry.count, c.entry.dim)]]
        /\ ret' = NoCall /\ last' = NoCall
        /\ UNCHANGED <<hasPyarrow, storeVars, indexFiles, builtFrom, engineVars, http, ingest>>

\* _update_manifest: json.loads(man.read_text()) and the append to its parts
ManifestRead(p) ==
    LET c == inflight[p]
    IN  /\ c.pc = "read"
        /\ inflight' = [inflight EXCEPT ![p] =
              IF IsTorn(manifest[c.key]) THEN SaveDone(c, "JSONDecodeError")
              ELSE [c EXCEPT !.pc = "write"] @@
                   [data |-> UpdateManifest(manifest[c.key], c.key[1], c.key[2],
                                            c.entry.part, c.entry.count, c.entry.dim)]]
        /\ ret' = NoCall /\ last' = NoCall
        /\ UNCHANGED <<hasPyarrow, storeVars, indexFiles, builtFrom, engineVars, http, ingest>>

\* write_text: the file is opened for writing and is empty
ManifestTruncate(p) ==
    LET c == inflight[p]
    IN  /\ c.pc = "write"
        /\ manifest' = [manifest EXCEPT ![c.key] = Torn]
        /\ inflight' = [inflight EXCEPT ![p].pc = "flush"]
        /\ ret' = NoCall /\ last' = NoCall
        /\ UNCHANGED <<hasPyarrow, partFiles, saved, indexFiles, builtFrom, engineVars,
                       http, ingest>>

\* write_text: the document is written from the start of the file, over
\* what another writer has put there since the file was opened; the tail of
\* a longer document stays
ManifestFlush(p) ==
    LET c == inflight[p]
        now == manifest[c.key]
    IN  /\ c.pc = "flush"
        /\ manifest' = [manifest EXCEPT ![c.key] =
              IF ~IsTorn(now) /\ Len(ManifestParts(now)) > Len(c.data.parts) THEN Torn
              ELSE c.data]
        /\ inflight' = [inflight EXCEPT ![p] = SaveDone(c, "ok")]
        /\ ret' = NoCall /\ last' = NoCall
        /\ UNCHANGED <<hasPyarrow, partFiles, saved, indexFiles, builtFrom, engineVars,
                       http, ingest>>

----------------------------------------------------------------------------
(* BaseIngestor.http_get_json(url, params, headers, retries, backoff) *)

\* what requests.get does: a response, or an exception of its own
GetOutcomes ==
    { [exc |-> "none", status_code |-> 200, body |-> "b1"],
      [exc |-> "none", status_code |-> 200, body |-> "b2"],
      [exc |-> "none", status_code |-> 404, body |-> ""],
      [exc |-> "none", status_code |-> 500, body |-> ""],
      [exc |-> "none", status_code |-> 503, body |-> ""],
      [exc |-> "ConnectionError", status_code |-> 0, body |-> ""] }

\* requests.Response.ok: raise_for_status() would not raise
Ok(resp) == resp.status_code < 400

HttpIdle ==
    [pc |-> "idle", retries |-> 0, gets |-> 0, responses |-> <<>>, sleeps |-> <<>>,
     result |-> [status |-> "none"]]

\* the call is made
HttpGetJson(retries) ==
    /\ http.pc \in {"idle", "done"}
    /\ http' = [HttpIdle EXCEPT !.pc = IF retries >= 1 THEN "loop" ELSE "after",
                                !.retries = retries]
    /\ UNCHANGED <<pipelineVars, ingest, inflight>>

\* one pass of the loop: the GET, then return, or log and sleep
HttpAttempt(out) ==
    LET attempt == Len(http.responses) + 1
    IN  /\ http.pc = "loop"
        /\ http' =
              IF out.exc # "none"
              THEN [http EXCEPT !.pc = "done", !.gets = @ + 1,
                                !.result = [status |-> out.exc]]
              ELSE IF Ok(out)
              THEN [http EXCEPT !.pc = "done", !.gets = @ + 1,
                                !.responses = Append(@, out),
                                !.result = [status |-> "ok", body |-> out.body]]
              ELSE [http EXCEPT !.pc = IF attempt = http.retries THEN "after" ELSE "loop",
                                !.gets = @ + 1,
                                !.responses = Append(@, out),
                                !.sleeps = Append(@, attempt)]
        /\ UNCHANGED <<pipelineVars, ingest, inflight>>

\* after the loop: resp.raise_for_status(), then return {}
HttpAfterLoop ==
    /\ http.pc = "after"
    /\ http' =
          [http EXCEPT !.pc = "done",
                       !.result =
                          IF http.responses = <<>> THEN [status |-> "UnboundLocalError"]
                          ELSE IF ~Ok(http.responses[Len(http.responses)])
                          THEN [status |-> "HTTPError",
                                status_code |->
                                    http.responses[Len(http.responses)].status_code]
                          ELSE [status |-> "ok", body |-> "{}"]]
    /\ UNCHANGED <<pipelineVars, ingest, inflight>>

----------------------------------------------------------------------------
(* POST /ingest/{source}: ingest_source and run_one *)

\* INGESTORS, in the order of its keys
INGESTORS == <<"text", "simulation", "experimental">>
Sources == {INGESTORS[i] : i \in 1..Len(INGESTORS)}

\* what a run_one coroutine ends with: {"rows": n}, or an exception
RunOutcomes ==
    { [exc |-> FALSE, rows |-> 0, message |-> ""],
      [exc |-> FALSE, rows |-> 5, message |-> ""],
      [exc |-> TRUE, rows |-> 0, message |-> "boom"],
      [exc |-> TRUE, rows |-> 0, message |-> ""] }

NoTask == [st |-> "none", exc |-> FALSE, rows |-> 0, message |-> ""]

IngestIdle ==
    [pc |-> "idle", source |-> "", tasks |-> [n \in Sources |-> NoTask],
     response |-> [http |-> 0]]

\* the entry of one source in the summary
SummaryEntry(task) ==
    IF task.exc THEN [status |-> "error", message |-> task.message]
    ELSE [status |-> "success", result |-> [rows |-> task.rows]]

\* a response for "all" made by a gather that lets the first exception through
AllResponseFailFast(tasks) ==
    IF \E n \in Sources : tasks[n].exc
    THEN [http |-> 500,
          detail |-> tasks[CHOOSE n \in Sources : tasks[n].exc].message]
    ELSE [http |-> 200, status |-> "completed",
          results |-> [n \in Sources |-> SummaryEntry(tasks[n])]]

\* the response for "all", from the results gather returned
AllResponse(tasks) ==
    [http |-> 200, status |-> "completed",
     results |-> [n \in Sources |-> SummaryEntry(tasks[n])]]

\* the response for one source, from what awaiting run_one gave
OneResponse(source, task) ==
    IF task.exc THEN [http |-> 500, detail |-> task.message]
    ELSE [http |-> 200, status |-> "success", source |-> source,
          result |-> [rows |-> task.rows]]

\* the request arrives: the coroutines are made, or the source is refused
IngestSource(source) ==
    /\ ingest.pc \in {"idle", "done"}
    /\ ingest' =
          IF source = "all"
          THEN [IngestIdle EXCEPT !.pc = "await", !.source = source,
                                  !.tasks = [n \in Sources |-> [NoTask EXCEPT !.st = "pending"]]]
          ELSE IF source \notin Sources
          THEN [IngestIdle EXCEPT !.pc = "done", !.source = source,
                                  !.response = [http |-> 400, detail |-> "Invalid source"]]
          ELSE [IngestIdle EXCEPT !.pc = "await", !.source = source,
                                  !.tasks[source] = [NoTask EXCEPT !.st = "pending"]]
    /\ UNCHANGED <<pipelineVars, http, inflight>>

\* the event loop starts the coroutine run_one(n)
RunOneStart(n) ==
    /\ ingest.pc = "await" /\ ingest.tasks[n].st = "pending"
    /\ ingest' = [ingest EXCEPT !.tasks[n].st = "running"]
    /\ UNCHANGED <<pipelineVars, http, inflight>>

\* run_one(n) returns or raises
RunOneEnd(n, out) ==
    /\ ingest.pc = "await" /\ ingest.tasks[n].st = "running"
    /\ ingest' = [ingest EXCEPT !.tasks[n] =
                      [st |-> "done", exc |-> out.exc, rows |-> out.rows,
                       message |-> out.message]]
    /\ UNCHANGED <<pipelineVars, http, inflight>>

\* every awaited coroutine is done: the response is made
IngestRespond ==
    /\ ingest.pc = "await"
    /\ \A n \in Sources : ingest.tasks[n].st \in {"none", "done"}
    /\ ingest' = [ingest EXCEPT !.pc = "done",
                                !.response =
                                    IF ingest.source = "all" THEN AllResponse(ingest.tasks)
                                    ELSE OneResponse(ingest.source,
                                                     ingest.tasks[ingest.source])]
    /\ UNCHANGED <<pipelineVars, http, inflight>>

----------------------------------------------------------------------------
(* Specifications *)

NoIndex == [index |-> NoFile, ids |-> NoFile]

InitRest ==
    /\ http = HttpIdle
    /\ ingest = IngestIdle
    /\ inflight = NoCalls
    /\ indexFiles = [k \in Keys |-> NoIndex]
    /\ builtFrom = [k \in Keys |-> [built |-> FALSE]]
    /\ ret = NoCall
    /\ faissCache = [k \in Keys |-> NoFile]
    /\ loads = [k \in Keys |-> 0]
    /\ last = NoCall

\* The store and the loader, in either environment, from empty directories
Init ==
    /\ hasPyarrow \in BOOLEAN
    /\ manifest = EmptyStore.manifest
    /\ partFiles = EmptyStore.partFiles
    /\ saved = EmptyStore.saved
    /\ InitRest

Next ==
    \/ \E key \in Keys, part \in Parts, b \in Batches, fmt \in Fmts :
           SavePart(key, part, b, fmt)
    \/ \E key \in Keys : LoadEmbeddingsDir(key)

Spec == Init /\ [][Next]_vars

\* The build pipeline and one search engine, where pyarrow is installed.
\* The embedding directories start as some runs of the embedding builders
\* left them: each a sequence of save_part calls on empty directories.
BatchA == [ids |-> <<"d1", "d2">>, vectors |-> Array(<<2, 2>>, <<<<2, 0>>, <<0, 2>>>>, "float32")]
BatchB == [ids |-> <<"d3">>, vectors |-> Array(<<1, 2>>, <<<<4, 2>>>>, "float32")]
BatchZ == [ids |-> <<>>, vectors |-> Array(<<0, 2>>, <<>>, "float32")]
BatchN == [ids |-> <<"d2", "d1">>, vectors |-> Array(<<2, 1>>, <<<<4>>, <<2>>>>, "float32")]

Call(key, part, b, fmt) == [key |-> key, part |-> part, b |-> b, fmt |-> fmt]

KDefault == KeySeq[1]
KOther == KeySeq[2]

BuilderRuns ==
    { <<>>,
      <<Call(KDefault, "A", BatchA, "npz")>>,
      <<Call(KOther, "A", BatchN, "auto")>>,
      <<Call(KDefault, "A", BatchZ, "npz")>>,
      <<Call(KDefault, "A", BatchZ, "parquet")>>,
      <<Call(KDefault, "A", BatchA, "auto"), Call(KDefault, "B", BatchA, "npz")>> }

RECURSIVE StoreAfter(_, _)
StoreAfter(st, calls) ==
    IF Len(calls) = 0 THEN st
    ELSE LET c == Head(calls)
         IN  StoreAfter(SavePartStore(st, c.key, c.part, c.b, c.fmt), Tail(calls))

\* a directory whose manifest lists no parts
EmptyManifestStore ==
    [EmptyStore EXCEPT !.manifest[KDefault] =
        [exists |-> TRUE, kind |-> KDefault[1], model |-> KDefault[2], parts |-> <<>>]]

InitEngine ==
    /\ hasPyarrow = TRUE
    /\ \E st \in {StoreAfter(EmptyStore, run) : run \in BuilderRuns}
                  \cup {EmptyManifestStore} :
          /\ manifest = st.manifest
          /\ partFiles = st.partFiles
          /\ saved = st.saved
    /\ InitRest

NextEngine ==
    \/ SavePart(KDefault, "B", BatchB, "auto")
    \/ \E key \in Keys, metric \in Metrics : BuildFromEmbeddings(key, metric)
    \/ \E req \in Requests : Search(req)

SpecEngine == InitEngine /\ [][NextEngine]_vars

\* The loader on directories as it may find them: written by the store of
\* this installation, with partition files removed or left over, and a
\* manifest that lists any of the parts, none, or has no parts entry.
FoundFile(path) ==
    LET b == IF path[1] = "A" THEN BatchA ELSE BatchB
    IN  IF path[2] = "npz" THEN WriteNpz(b.ids, b.vectors)
        ELSE WriteParquet(b.ids, b.vectors)

FoundEntry(part) ==
    LET b == IF part = "A" THEN BatchA ELSE BatchB
    IN  ManifestEntry(part, b.vectors.shape[1], b.vectors.shape[2])

FoundManifests ==
    { NoFile,
      [exists |-> TRUE, kind |-> KDefault[1], model |-> KDefault[2]] }
    \cup
    { [exists |-> TRUE, kind |-> KDefault[1], model |-> KDefault[2], parts |-> ps] :
         ps \in { <<>>, <<FoundEntry("A")>>, <<FoundEntry("A"), FoundEntry("B")>>,
                  <<FoundEntry("B"), FoundEntry("A")>> } }

InitLoader ==
    /\ hasPyarrow \in BOOLEAN
    /\ \E man \in FoundManifests, present \in SUBSET PartPaths :
          /\ (\E path \in present : path[2] = "parquet") => hasPyarrow
          /\ manifest = [k \in Keys |-> IF k = KDefault THEN man ELSE NoFile]
          /\ partFiles = [k \in Keys |-> [path \in PartPaths |->
                              IF k = KDefault /\ path \in present
                              THEN FoundFile(path) ELSE NoFile]]
    /\ saved = EmptyStore.saved
    /\ InitRest

NextLoader == \E key \in Keys : LoadEmbeddingsDir(key)

SpecLoader == InitLoader /\ [][NextLoader]_vars

\* One ingestor making calls of http_get_json, one after the other
InitHttp ==
    /\ hasPyarrow = TRUE
    /\ manifest = EmptyStore.manifest
    /\ partFiles = EmptyStore.partFiles
    /\ saved = EmptyStore.saved
    /\ InitRest

NextHttp ==
    \/ \E retries \in 0..MaxRetries : HttpGetJson(retries)
    \/ \E out \in GetOutcomes : HttpAttempt(out)
    \/ HttpAfterLoop

SpecHttp == InitHttp /\ [][NextHttp]_vars

\* One engine serving two requests at a time, while indexes are built
NextSearches ==
    \/ \E key \in Keys : BuildFromEmbeddings(key, "ip")
    \/ \E p \in Procs, req \in SearchRequests : SearchBegin(p, req)
    \/ \E p \in Procs : GetBackendCheck(p)
    \/ \E p \in Procs : GetBackendConstruct(p)
    \/ \E p \in Procs : GetBackendAssign(p)
    \/ \E p \in Procs : GetBackendCached(p)
    \/ \E p \in Procs : GetBackendReturn(p)

SpecSearches == InitEngine /\ [][NextSearches]_vars

\* Two writers of one store, in either environment, from empty directories
NextSaves ==
    \/ \E p \in Procs, key \in Keys, b \in SaveBatches, fmt \in Fmts : SaveBegin(p, key, b, fmt)
    \/ \E p \in Procs : ManifestExists(p)
    \/ \E p \in Procs : ManifestRead(p)
    \/ \E p \in Procs : ManifestTruncate(p)
    \/ \E p \in Procs : ManifestFlush(p)

SpecSaves == Init /\ [][NextSaves]_vars

\* The ingestion route serving one request at a time
NextIngest ==
    \/ \E source \in Sources \cup {"all", "unknown"} : IngestSource(source)
    \/ \E n \in Sources : RunOneStart(n)
    \/ \E n \in Sources, out \in RunOutcomes : RunOneEnd(n, out)
    \/ IngestRespond

SpecIngest == InitHttp /\ [][NextIngest]_vars

----------------------------------------------------------------------------
(* Claims about the partition store and the partition loader (Spec) *)

\* what the successful save_part calls for key were given, in call order
SavedIds(key) == Concat([i \in 1..Len(saved[key]) |-> saved[key][i].ids])
SavedRows(key) == Concat([i \in 1..Len(saved[key]) |-> saved[key][i].vectors.data])

DistinctParts(key) ==
    \A i, j \in 1..Len(saved[key]) : i # j => saved[key][i].part # saved[key][j].part

\* the inputs the round trip is claimed for: at least one call, distinct part
\* names, float32 matrices of one width
RoundTripInputs(key) ==
    /\ Len(saved[key]) > 0
    /\ DistinctParts(key)
    /\ \A i \in 1..Len(saved[key]) :
          /\ saved[key][i].vectors.dtype = "float32"
          /\ Len(saved[key][i].ids) = saved[key][i].vectors.shape[1]
          /\ saved[key][i].vectors.shape[2] = saved[key][1].vectors.shape[2]

\* C1: after save_part calls with distinct part names, each given a float32
\* matrix and as many ids as rows, in either encoding, load_embeddings_dir
\* returns the ids and the rows of the calls concatenated in call order.
C1_RoundTrip ==
    (ret.op = "load_embeddings_dir" /\ RoundTripInputs(ret.key)) =>
        /\ ret.status = "ok"
        /\ ret.ids = SavedIds(ret.key)
        /\ ret.vecs = Array(<<Len(SavedRows(ret.key)), saved[ret.key][1].vectors.shape[2]>>,
                            SavedRows(ret.key), "float32")

\* the round trip holds when no part without rows was written as parquet
RoundTripOfPartsWithRows ==
    (/\ ret.op = "load_embeddings_dir" /\ RoundTripInputs(ret.key)
     /\ \A i \in 1..Len(saved[ret.key]) :
           saved[ret.key][i].fmt = "parquet" => Len(saved[ret.key][i].ids) > 0) =>
        /\ ret.status = "ok"
        /\ ret.ids = SavedIds(ret.key)
        /\ ret.vecs = Array(<<Len(SavedRows(ret.key)), saved[ret.key][1].vectors.shape[2]>>,
                            SavedRows(ret.key), "float32")

\* descriptors as the calls state them: rows and columns of the matrix given
CallDescriptors(key) ==
    [i \in 1..Len(saved[key]) |->
        [part |-> saved[key][i].part,
         count |-> saved[key][i].vectors.shape[1],
         dim |-> saved[key][i].vectors.shape[2]]]

ManifestMatchesCalls ==
    \A key \in Keys :
        IF Len(saved[key]) = 0 THEN ~manifest[key].exists
        ELSE /\ manifest[key].exists
             /\ manifest[key].kind = key[1] /\ manifest[key].model = key[2]
             /\ manifest[key].parts = CallDescriptors(key)

ManifestOnlyAppended ==
    \A key \in Keys :
        manifest[key].exists =>
            /\ manifest'[key].exists
            /\ Len(manifest'[key].parts) >= Len(manifest[key].parts)
            /\ SubSeq(manifest'[key].parts, 1, Len(manifest[key].parts))
                   = manifest[key].parts

\* C2: the manifest of a (kind, model) holds one descriptor per successful
\* save_part call, in call order, with count = rows and dim = columns of the
\* call's matrix, and no call changes or removes an earlier descriptor.
C2_ManifestAppendOnly == []ManifestMatchesCalls /\ [][ManifestOnlyAppended]_vars

\* two calls for one (kind, model), the first with a matrix without rows
C2_Witness ==
    \E key \in Keys :
        /\ ret.op = "save_part" /\ ret.status = "ok" /\ ret.key = key
        /\ Len(saved[key]) = 2
        /\ manifest[key].exists /\ Len(manifest[key].parts) = 2
        /\ manifest[key].parts[1].count = 0
        /\ manifest[key].parts[2].count = 2

\* the file load_embeddings_dir reads for the i-th descriptor of key
FileRead(key, i) ==
    partFiles[key][<<manifest[key].parts[i].part,
                     PartExt(partFiles[key], manifest[key].parts[i].part)>>]

StoredIds(file) == IF "ids" \in DOMAIN file THEN file.ids ELSE file.doc_id
StoredRows(file) == IF "vecs" \in DOMAIN file THEN file.vecs.data ELSE file.vector

\* C4: load_embeddings_dir returns as many ids as vector rows, the ids and
\* rows of the partitions in manifest order and within-part order, so that
\* (ids[i], vectors[i]) is a pair stored at one row of one partition.
C4_LoaderAligned ==
    (ret.op = "load_embeddings_dir" /\ ret.status = "ok") =>
        LET n == Len(manifest[ret.key].parts)
        IN  /\ Len(ret.ids) = ret.vecs.shape[1]
            /\ Len(ret.vecs.data) = ret.vecs.shape[1]
            /\ ret.ids = Concat([i \in 1..n |-> StoredIds(FileRead(ret.key, i))])
            /\ ret.vecs.data =
                   Concat([i \in 1..n |-> MapSeq(StoredRows(FileRead(ret.key, i)), F32Row)])

\* the alignment holds when no part without rows is read from parquet
LoaderAlignedOverPartsWithRows ==
    (/\ ret.op = "load_embeddings_dir" /\ ret.status = "ok"
     /\ \A i \in 1..Len(manifest[ret.key].parts) :
           "vector" \in DOMAIN FileRead(ret.key, i) =>
               Len(FileRead(ret.key, i).vector) > 0) =>
        LET n == Len(manifest[ret.key].parts)
        IN  /\ Len(ret.ids) = ret.vecs.shape[1]
            /\ Len(ret.vecs.data) = ret.vecs.shape[1]
            /\ ret.ids = Concat([i \in 1..n |-> StoredIds(FileRead(ret.key, i))])
            /\ ret.vecs.data =
                   Concat([i \in 1..n |-> MapSeq(StoredRows(FileRead(ret.key, i)), F32Row)])

----------------------------------------------------------------------------
(* Claims about the index builder and the search engine (SpecEngine) *)

IsSearch == last.op = "search"
Answered == IsSearch /\ last.status = "ok"

\* the persisted index and id mapping of key are what the last build got
\* from the loader, row for row
PersistedAligned(key) ==
    /\ indexFiles[key].index.exists /\ indexFiles[key].ids.exists
    /\ Len(indexFiles[key].ids.ids) = indexFiles[key].index.index.ntotal
    /\ indexFiles[key].ids.ids = builtFrom[key].ids
    /\ indexFiles[key].index.index.xb = builtFrom[key].vecs.data

\* the rows the backend returned, without the padding
RowsFound == SelectSeq(last.idxs, LAMBDA i : i >= 0)

\* C3: after build_from_embeddings the persisted id mapping has as many
\* entries as the persisted index has rows, entry i being the id the loader
\* paired with the vector at row i; load_faiss_index returns that index and
\* mapping; every doc_id of a response is ids[row] for a row the index returned.
C3_Alignment ==
    /\ \A key \in Keys : builtFrom[key].built => PersistedAligned(key)
    /\ (IsSearch /\ last.constructed) =>
           /\ last.backend.index = indexFiles[last.key].index.index
           /\ last.backend.ids = indexFiles[last.key].ids.ids
    /\ Answered =>
           \A n \in 1..Len(last.response.items) :
               \E p \in 1..Len(RowsFound) :
                   last.response.items[n].doc_id = last.backend.ids[RowsFound[p] + 1]

\* the alignment holds for builds whose loader returned as many ids as rows
AlignmentOfAlignedLoads ==
    /\ \A key \in Keys :
          (builtFrom[key].built /\ Len(builtFrom[key].ids) = builtFrom[key].vecs.shape[1])
              => PersistedAligned(key)
    /\ (IsSearch /\ last.constructed) =>
           /\ last.backend.index = indexFiles[last.key].index.index
           /\ last.backend.ids = indexFiles[last.key].ids.ids
    /\ Answered =>
           \A n \in 1..Len(last.response.items) :
               \E p \in 1..Len(RowsFound) :
                   last.response.items[n].doc_id = last.backend.ids[RowsFound[p] + 1]

\* C5: a search that gets as far as the backend calls it exactly once, with
\* top_k = max(req.top_k, req.page * req.size); page 3 of size 10 with
\* top_k 5 asks for 30 candidates.
C5_OverFetch ==
    /\ IsSearch =>
          /\ Len(last.backendCalls) = (IF last.backend.exists THEN 1 ELSE 0)
          /\ last.status = "ok" => Len(last.backendCalls) = 1
          /\ \A c \in 1..Len(last.backendCalls) :
                last.backendCalls[c] =
                    IF last.req.top_k >= last.req.page * last.req.size
                    THEN last.req.top_k ELSE last.req.page * last.req.size
    /\ OverFetch(Request("text", {"q1"}, {}, 5, 3, 10, {})) = 30

\* a page beyond top_k was asked for and the backend was asked for all of it
C5_Witness ==
    /\ Answered
    /\ last.req.top_k < last.req.page * last.req.size
    /\ last.backendCalls = <<last.req.page * last.req.size>>
    /\ Len(last.response.items) > 0

HasRecord(d) == d \in DOMAIN last.meta_map

BestFirst(metric, scores) ==
    \A i, j \in 1..Len(scores) :
        i < j => IF metric = "ip" THEN scores[i] >= scores[j] ELSE scores[i] <= scores[j]

\* C6: every hit is a candidate the backend returned and the metadata lookup
\* returned a record for; a candidate without a record never appears,
\* whatever its rank; the hits keep the backend's best-first order.
C6_JoinSemantics ==
    Answered =>
        /\ last.doc_ids = [p \in 1..Len(RowsFound) |-> last.backend.ids[RowsFound[p] + 1]]
        /\ DOMAIN last.meta_map \subseteq DOMAIN Documents
        /\ [n \in 1..Len(last.kept) |-> last.kept[n].doc_id]
               = SelectSeq(last.doc_ids, HasRecord)
        /\ \A n \in 1..Len(last.response.items) :
              /\ HasRecord(last.response.items[n].doc_id)
              /\ \E m \in 1..Len(last.kept) : last.kept[m] = last.response.items[n]
        /\ BestFirst(last.backend.index.metric,
                     [n \in 1..Len(last.kept) |-> last.kept[n].score])
        /\ BestFirst(last.backend.index.metric,
                     [n \in 1..Len(last.response.items) |-> last.response.items[n].score])

\* the top-ranked candidate has no record and is dropped; a lower one is a hit
C6_Witness ==
    /\ Answered
    /\ Len(last.doc_ids) > 1
    /\ ~HasRecord(last.doc_ids[1])
    /\ Len(last.response.items) > 0
    /\ last.response.items[1].doc_id = last.doc_ids[2]

\* C7: items = kept[(page-1)*size : (page-1)*size + size] for the ordered
\* list kept of candidates that survived the join; total = len(kept),
\* counted before slicing; page and size echo the request.
C7_Pagination ==
    Answered =>
        LET start == (last.req.page - 1) * last.req.size
            n == Max(0, Min(last.req.size, Len(last.kept) - start))
        IN  /\ [m \in 1..Len(last.kept) |-> last.kept[m].doc_id]
                   = SelectSeq(last.doc_ids, HasRecord)
            /\ last.response.total = Len(last.kept)
            /\ last.response.page = last.req.page
            /\ last.response.size = last.req.size
            /\ last.response.items = [m \in 1..n |-> last.kept[start + m]]

\* a second page that holds fewer hits than the total
C7_Witness ==
    /\ Answered
    /\ last.req.page = 2
    /\ Len(last.response.items) > 0
    /\ last.response.total > Len(last.response.items)
    /\ last.response.items[1] = last.kept[last.req.size + 1]

\* C8: a search for a kind other than "text" raises ValueError before the
\* encoder, the backend loader or the metadata lookup is called, and leaves
\* the backend cache as it was.
C8_UnsupportedKind ==
    /\ [](IsSearch /\ last.req.kind # "text" =>
             /\ last.status = "ValueError"
             /\ last.encoderCalls = 0 /\ last.loaderCalls = 0
             /\ last.backendCalls = <<>> /\ last.metaCalls = <<>>)
    /\ [][(last'.op = "search" /\ last'.req.kind # "text") =>
              (faissCache' = faissCache /\ loads' = loads)]_vars

\* a search for simulations is refused although an index is there to load
C8_Witness ==
    /\ IsSearch /\ last.req.kind = "simulation" /\ last.status = "ValueError"
    /\ indexFiles[KDefault].index.exists
    /\ ~faissCache[KDefault].exists

\* C9: the backend of a key is loaded at most once, on the first search that
\* needs it; later searches use that instance; a cache entry is never
\* replaced, evicted or refreshed, also when the index is rebuilt on disk.
C9_CacheStable ==
    /\ [](\A key \in Keys : IF faissCache[key].exists THEN loads[key] = 1
                             ELSE loads[key] = 0)
    /\ []((IsSearch /\ last.backend.exists) =>
             /\ last.backend = faissCache[last.key]
             /\ \A p \in 1..Len(last.doc_ids) :
                   \E i \in 1..Len(faissCache[last.key].ids) :
                       last.doc_ids[p] = faissCache[last.key].ids[i])
    /\ [][\A key \in Keys :
             faissCache[key].exists => faissCache'[key] = faissCache[key]]_vars
    /\ [][(last'.op = "search" /\ last'.key \in Keys /\ faissCache[last'.key].exists) =>
              (/\ last'.loaderCalls = 0 /\ ~last'.constructed
               /\ last'.backend = faissCache[last'.key])]_vars

\* a search answered from the cached backend after the index was rebuilt
C9_Witness ==
    /\ Answered /\ last.loaderCalls = 0
    /\ faissCache[last.key].exists
    /\ indexFiles[last.key].index.index # faissCache[last.key].index
    /\ indexFiles[last.key].ids.ids # faissCache[last.key].ids
    /\ Len(last.response.items) > 0

\* the outcome of a search that went to the loader: FileNotFoundError and no
\* cache entry when an artifact is missing, else a cached backend and a
\* status among succeeded
LoaderOutcome(succeeded) ==
    /\ (IsSearch /\ last.loaderCalls = 1) =>
          IF ~indexFiles[last.key].index.exists \/ ~indexFiles[last.key].ids.exists
          THEN /\ last.status = "FileNotFoundError"
               /\ ~last.constructed
               /\ ~faissCache[last.key].exists /\ loads[last.key] = 0
          ELSE /\ last.status \in succeeded
               /\ last.constructed
               /\ faissCache[last.key].exists
               /\ faissCache[last.key].index = indexFiles[last.key].index.index
    /\ (IsSearch /\ last.status = "FileNotFoundError") => last.loaderCalls = 1

\* C10: with index.faiss or ids.npy missing, constructing the backend raises
\* FileNotFoundError, which search propagates; no cache entry is made, so a
\* search after the index has been built loads it and succeeds.
C10_MissingIndex == LoaderOutcome({"ok"})

\* the same, where a loaded index without columns may refuse the query
MissingIndexOverIndexesWithColumns ==
    /\ LoaderOutcome({"ok", "AssertionError"})
    /\ (IsSearch /\ last.status = "AssertionError") => last.backend.index.d = 0

\* a search that found no index for its key
C10_Witness ==
    /\ IsSearch /\ last.status = "FileNotFoundError"
    /\ last.key = KOther
    /\ manifest[KOther].exists
    /\ ~indexFiles[KOther].index.exists
    /\ ~faissCache[KOther].exists

----------------------------------------------------------------------------
(* Claims about the loader on directories as found (SpecLoader) *)

IsLoad == ret.op = "load_embeddings_dir"

\* the manifest descriptors of key that have neither file on disk
PartsWithoutFile(key) ==
    {i \in 1..Len(ManifestParts(manifest[key])) :
        /\ ~partFiles[key][<<ManifestParts(manifest[key])[i].part, "npz">>].exists
        /\ ~partFiles[key][<<ManifestParts(manifest[key])[i].part, "parquet">>].exists}

\* C11: load_embeddings_dir raises FileNotFoundError when manifest.json is
\* absent and when some manifest descriptor has neither {part}.npz nor
\* {part}.parquet on disk; in both cases no partial (ids, vectors) is returned.
C11_LoaderNotFound ==
    IsLoad =>
        /\ ~manifest[ret.key].exists => ret.status = "FileNotFoundError"
        /\ (manifest[ret.key].exists /\ PartsWithoutFile(ret.key) # {})
               => ret.status = "FileNotFoundError"
        /\ ret.status = "FileNotFoundError" =>
               /\ DOMAIN ret = {"op", "key", "status"}
               /\ ~manifest[ret.key].exists \/ PartsWithoutFile(ret.key) # {}

\* the first descriptor has its file, the second has none
C11_Witness ==
    /\ IsLoad /\ ret.status = "FileNotFoundError"
    /\ manifest[ret.key].exists
    /\ PartsWithoutFile(ret.key) = {2}

\* C12: load_embeddings_dir on a manifest whose parts list is empty or
\* missing returns an id array and a vector matrix with zero rows and raises
\* no error.
C12_EmptyManifest ==
    (IsLoad /\ manifest[ret.key].exists /\ ManifestParts(manifest[ret.key]) = <<>>) =>
        /\ ret.status = "ok"
        /\ ret.ids = <<>>
        /\ Ndim(ret.vecs) = 2 /\ ret.vecs.shape[1] = 0 /\ ret.vecs.data = <<>>

\* a manifest without a parts entry, in a directory that holds partition files
C12_Witness ==
    /\ IsLoad /\ ret.status = "ok" /\ ret.ids = <<>>
    /\ manifest[ret.key].exists
    /\ "parts" \notin DOMAIN manifest[ret.key]
    /\ partFiles[ret.key][<<"A", "npz">>].exists

\* a manifest with an empty parts list
EmptyPartsListLoaded ==
    /\ IsLoad /\ ret.status = "ok" /\ ret.ids = <<>>
    /\ manifest[ret.key].exists
    /\ "parts" \in DOMAIN manifest[ret.key]

----------------------------------------------------------------------------
(* Claims about searches over stores without rows (SpecEngine) *)

\* the index of key on disk was built from a store whose manifest counted
\* zero rows, and the last search loaded it
LoadedZeroRowIndex ==
    /\ IsSearch /\ last.constructed
    /\ builtFrom[last.key].built /\ builtFrom[last.key].rows = 0

\* C13: for an index built by build_from_embeddings from a store holding zero
\* rows in total (an empty manifest, or only zero-row parts), search returns
\* total = 0 and items = [] without raising, and makes no metadata lookup.
C13_EmptyIndexSearch ==
    LoadedZeroRowIndex =>
        /\ last.status = "ok"
        /\ last.response.total = 0 /\ last.response.items = <<>>
        /\ last.metaCalls = <<>>

\* the same for the zero-row indexes that kept the width of the vectors
EmptyIndexSearchOverIndexesWithColumns ==
    (LoadedZeroRowIndex /\ last.backend.index.d > 0) =>
        /\ last.status = "ok"
        /\ last.response.total = 0 /\ last.response.items = <<>>
        /\ last.metaCalls = <<>>

\* a search over the index of a zero-row npz part
ZeroRowNpzSearched ==
    /\ LoadedZeroRowIndex /\ last.backend.index.d > 0
    /\ last.status = "ok"

\* a search over the index of an empty manifest
EmptyManifestSearched ==
    /\ LoadedZeroRowIndex /\ last.status = "AssertionError"
    /\ builtFrom[last.key].vecs.shape = <<0, 0>>

----------------------------------------------------------------------------
(* Claims about the arguments save_part and the builder refuse *)

\* C14: save_part given vectors whose rank is not 2 raises ValueError and
\* writes nothing: no partition file is created or overwritten, and the
\* manifest is neither created nor changed.
C14_RankCheck ==
    /\ []((ret.op = "save_part" /\ ret.ndim # 2) => ret.status = "ValueError")
    /\ [][(ret'.op = "save_part" /\ ret'.ndim # 2) =>
              (manifest' = manifest /\ partFiles' = partFiles /\ saved' = saved)]_vars

\* a refused save_part for a part that has a file and a descriptor
C14_Witness ==
    /\ ret.op = "save_part" /\ ret.ndim # 2 /\ ret.status = "ValueError"
    /\ partFiles[ret.key][ret.out].exists
    /\ Len(ManifestParts(manifest[ret.key])) = 1

\* a refused save_part on a directory without manifest
RefusedOnEmptyDirectory ==
    /\ ret.op = "save_part" /\ ret.ndim = 3 /\ ret.status = "ValueError"
    /\ ~manifest[ret.key].exists

IsBuild == ret.op = "build_from_embeddings"

\* C15: build_faiss_index with a metric other than 'ip' or 'l2' raises
\* ValueError, and build_from_embeddings called with such a metric writes or
\* replaces neither index.faiss nor ids.npy.
C15_MetricCheck ==
    /\ [](\A key \in Keys :
            load_embeddings_dir(key).status = "ok" =>
                \A metric \in Metrics \ {"ip", "l2"} :
                    BuildFaissIndex(load_embeddings_dir(key).vecs, metric).status
                        = "ValueError")
    /\ []((IsBuild /\ ret.metric \notin {"ip", "l2"}) =>
             IF load_embeddings_dir(ret.key).status = "ok"
             THEN ret.status = "ValueError"
             ELSE ret.status = load_embeddings_dir(ret.key).status)
    /\ [][(ret'.op = "build_from_embeddings" /\ ret'.metric \notin {"ip", "l2"}) =>
              (indexFiles' = indexFiles /\ builtFrom' = builtFrom)]_vars

\* a build with metric 'cosine' refused over embeddings that load, where an
\* index is on disk already
C15_Witness ==
    /\ IsBuild /\ ret.metric = "cosine" /\ ret.status = "ValueError"
    /\ load_embeddings_dir(ret.key).status = "ok"
    /\ indexFiles[ret.key].index.exists /\ indexFiles[ret.key].ids.exists

----------------------------------------------------------------------------
(* Claims about the determinism of the index (SpecEngine) *)

\* query vectors of every width in use, and the counts asked for
QueryVectors == {<<0, 2>>, <<2, 0>>, <<2, 2>>, <<2>>, <<4>>}
TopKs == 1..Max(MaxTopK, MaxPage * MaxSize)

\* the answers of the index that is on disk for key, in this state
Answers(files) ==
    [q \in QueryVectors, k \in TopKs |->
        BackendSearch([index |-> files.index.index], q, k)]

----------------------------------------------------------------------------
(* Claims about http_get_json (SpecHttp) *)

AllNotOk(responses) == \A i \in 1..Len(responses) : ~Ok(responses[i])

\* the call has returned or raised
HttpDone == http.pc = "done"

\* what the claim says of a call that was given `retries`
GetJsonContract ==
    /\ http.gets <= http.retries
    /\ http.pc \in {"loop", "after"} => AllNotOk(http.responses)
    /\ (HttpDone /\ http.result.status = "ok") =>
          /\ http.gets = Len(http.responses)
          /\ Ok(http.responses[http.gets])
          /\ http.result.body = http.responses[http.gets].body
          /\ AllNotOk(SubSeq(http.responses, 1, http.gets - 1))
    /\ (HttpDone /\ Len(http.responses) = http.retries /\ AllNotOk(http.responses)) =>
          /\ http.result.status = "HTTPError"
          /\ http.result.status_code = http.responses[http.retries].status_code
          /\ http.gets = http.retries
    /\ (HttpDone /\ http.result.status = "HTTPError") =>
          /\ Len(http.responses) = http.retries /\ AllNotOk(http.responses)

\* C17: http_get_json issues at most `retries` GET requests; it returns the
\* JSON body of the first response whose ok flag is true and issues no
\* further request; if all `retries` responses are not ok it raises the HTTP
\* error of the last response after exactly `retries` requests.
C17_Retries == GetJsonContract

\* the same for calls given at least one attempt
RetriesOfCallsWithAnAttempt == http.retries >= 1 => GetJsonContract

\* two failures, then the body of the third response
ThirdResponseReturned ==
    /\ HttpDone /\ http.retries = 3 /\ http.gets = 3
    /\ http.result = [status |-> "ok", body |-> "b2"]

\* three failures, then the error of the third response
LastErrorRaised ==
    /\ HttpDone /\ http.retries = 3 /\ http.gets = 3
    /\ http.responses[1].status_code = 500
    /\ http.result = [status |-> "HTTPError", status_code |-> 503]

----------------------------------------------------------------------------
(* Claims about POST /ingest/all (SpecIngest) *)

AllAnswered == ingest.pc = "done" /\ ingest.source = "all"

\* C18: POST /ingest/all starts run_one for each of text, simulation and
\* experimental; an exception of one source neither prevents nor cancels the
\* others, and the response always has status 'completed' with, for every
\* source, status 'success' and its result or status 'error' and the
\* exception message, also when all three fail.
C18_IngestAll ==
    /\ [](ingest.source = "all" =>
             \A n \in Sources : ingest.tasks[n].st \in {"pending", "running", "done"})
    /\ [](AllAnswered =>
             /\ ingest.response.http = 200
             /\ ingest.response.status = "completed"
             /\ DOMAIN ingest.response.results = Sources
             /\ \A n \in Sources :
                   /\ ingest.tasks[n].st = "done"
                   /\ ingest.response.results[n] =
                         IF ingest.tasks[n].exc
                         THEN [status |-> "error", message |-> ingest.tasks[n].message]
                         ELSE [status |-> "success",
                               result |-> [rows |-> ingest.tasks[n].rows]])
    /\ [][(ingest.source = "all" /\ ingest'.source = "all" /\ ingest.pc = "await") =>
              \A n \in Sources :
                  \/ ingest'.tasks[n] = ingest.tasks[n]
                  \/ /\ ingest.tasks[n].st # "done"
                     /\ \A m \in Sources \ {n} : ingest'.tasks[m] = ingest.tasks[m]]_vars

\* all three sources failed and the request completed
C18_Witness ==
    /\ AllAnswered
    /\ \A n \in Sources : ingest.tasks[n].exc
    /\ ingest.response.status = "completed"

\* one source failed before another was started, and that one succeeded
FailureBeforeStart ==
    /\ ingest.source = "all" /\ ingest.pc = "await"
    /\ ingest.tasks["text"].st = "done" /\ ingest.tasks["text"].exc
    /\ ingest.tasks["simulation"].st = "pending"

----------------------------------------------------------------------------
(* Claims about searches in flight (SpecSearches) *)

\* both threads are past the test of the cache for one key, both saw it absent
BothSawAbsent(key) ==
    \A p \in Procs :
        /\ inflight[p].pc \in {"branch", "assign", "return"}
        /\ inflight[p].t.key = key
        /\ inflight[p].absent

\* C19: two searches in flight for one uncached key can both see the key
\* absent; each of them then constructs a backend of its own, so the
\* persisted index is loaded once by each, and afterwards the cache holds
\* one entry for the key, a backend one of them constructed.
C19_DuplicateLoad ==
    /\ [][\A p \in Procs :
             (inflight[p].pc = "branch" /\ inflight[p].absent
                  /\ inflight'[p].pc # "branch") =>
                 \/ /\ inflight'[p].pc = "assign"
                    /\ inflight'[p].t.constructed
                    /\ loads'[inflight[p].t.key] = loads[inflight[p].t.key] + 1
                 \/ /\ inflight'[p].pc = "done"
                    /\ inflight'[p].result.status = "FileNotFoundError"]_vars
    /\ [](\A key \in Keys :
             (\A p \in Procs : /\ inflight[p].pc = "done"
                               /\ inflight[p].result.key = key
                               /\ inflight[p].result.constructed) =>
                 /\ loads[key] >= Cardinality(Procs)
                 /\ faissCache[key].exists
                 /\ \E p \in Procs : inflight[p].result.backend = faissCache[key])

\* both searches saw the key absent, both loaded the index, both have
\* answered, and the backends they constructed are two
C19_Witness ==
    /\ \A p \in Procs : /\ inflight[p].pc = "done"
                        /\ inflight[p].result.key = KDefault
                        /\ inflight[p].result.constructed
                        /\ inflight[p].result.status = "ok"
    /\ loads[KDefault] = 2
    /\ faissCache[KDefault].exists

----------------------------------------------------------------------------
(* Claims about save_part calls in flight (SpecSaves) *)

\* both writers have returned from save_part for one key
BothSaved(key) ==
    \A p \in Procs : /\ inflight[p].pc = "done"
                     /\ inflight[p].key = key
                     /\ inflight[p].status = "ok"

HasEntry(man, entry) ==
    /\ ~IsTorn(man)
    /\ \E i \in 1..Len(ManifestParts(man)) : ManifestParts(man)[i] = entry

\* C20: when two save_part calls for one (kind, model) with distinct part
\* names overlap in time, the manifest afterwards holds the descriptors of
\* both, and no reader of the manifest finds it partially written.
C20_ManifestAtomic ==
    /\ \A key \in Keys :
          (BothSaved(key) /\ \A p \in Procs : ~inflight[p].alone) =>
              \A p \in Procs : HasEntry(manifest[key], inflight[p].entry)
    /\ \A p \in Procs :
          inflight[p].pc = "done" => inflight[p].status # "JSONDecodeError"

\* two save_part calls for one (kind, model), neither in flight while
\* the other was, leave the descriptors of both in the manifest
ManifestOfSavesInTurn ==
    \A key \in Keys :
        (BothSaved(key) /\ \A p \in Procs : inflight[p].alone) =>
            \A p \in Procs : HasEntry(manifest[key], inflight[p].entry)

\* two calls overlapped, both returned, and the manifest lists one part
AppendLost ==
    /\ BothSaved(KDefault)
    /\ \A p \in Procs : ~inflight[p].alone
    /\ ~IsTorn(manifest[KDefault])
    /\ Len(ManifestParts(manifest[KDefault])) = 1

\* a call read the manifest while the other had it open for writing
TornRead ==
    \E p \in Procs : inflight[p].pc = "done" /\ inflight[p].status = "JSONDecodeError"

\* two calls in turn, both descriptors listed
SavedInTurn ==
    /\ BothSaved(KDefault)
    /\ \A p \in Procs : inflight[p].alone
    /\ Len(ManifestParts(manifest[KDefault])) = 2

----------------------------------------------------------------------------
(* Claims about part names and partition files (Spec) *)

\* the successful calls for key that wrote the file of part in encoding f
CallsFor(key, part, f) ==
    {i \in 1..Len(saved[key]) : saved[key][i].part = part /\ saved[key][i].fmt = f}

LatestCall(key, part, f) ==
    CHOOSE i \in CallsFor(key, part, f) : \A j \in CallsFor(key, part, f) : j <= i

DescriptorsOf(key, part) ==
    {i \in 1..Len(ManifestParts(manifest[key])) : manifest[key].parts[i].part = part}

\* C21: save_part called again with the same (kind, model, part name) and
\* encoding leaves one partition file, which holds the rows of the later
\* call, and one manifest descriptor per call; a call writes no partition
\* file but the one of its own part name.
C21_ResaveOverwrites ==
    /\ [](\A key \in Keys, part \in Parts, f \in Exts :
             CallsFor(key, part, f) # {} =>
                 LET file == partFiles[key][<<part, f>>]
                     call == saved[key][LatestCall(key, part, f)]
                 IN  /\ file.exists
                     /\ StoredIds(file) = call.ids
                     /\ MapSeq(StoredRows(file), F32Row) = MapSeq(call.vectors.data, F32Row)
                     /\ Cardinality(DescriptorsOf(key, part)) >=
                            Cardinality(CallsFor(key, part, f)))
    /\ [][\A key \in Keys, path \in PartPaths :
             partFiles'[key][path] # partFiles[key][path] =>
                 /\ ret'.op = "save_part" /\ ret'.status = "ok"
                 /\ ret'.key = key /\ ret'.out = path]_vars

\* a part name saved twice in one encoding, with other rows the second time
C21_Witness ==
    \E key \in Keys, part \in Parts, f \in Exts :
        /\ Cardinality(CallsFor(key, part, f)) = 2
        /\ saved[key][1].ids # saved[key][2].ids
        /\ Cardinality(DescriptorsOf(key, part)) = 2
        /\ StoredIds(partFiles[key][<<part, f>>]) = saved[key][2].ids

----------------------------------------------------------------------------
(* Claims about the dimension of a (kind, model) (Spec) *)

\* the width of the rows a partition file holds; a file without rows has none
StoredWidths(file) == {Len(StoredRows(file)[r]) : r \in 1..Len(StoredRows(file))}

OneDim(key) ==
    \E dim \in 0..4 :
        /\ \A i \in 1..Len(ManifestParts(manifest[key])) : manifest[key].parts[i].dim = dim
        /\ \A path \in PartPaths :
              partFiles[key][path].exists => StoredWidths(partFiles[key][path]) \subseteq {dim}

\* C22: after any sequence of successful save_part calls for one
\* (kind, model), all descriptors of its manifest carry one dim and all its
\* partitions hold vectors of that dimension.
C22_OneDim == \A key \in Keys : manifest[key].exists => OneDim(key)

\* the same, after calls that were all given matrices of one width
OneDimOverCallsOfOneWidth ==
    \A key \in Keys :
        (/\ manifest[key].exists
         /\ \A i \in 1..Len(saved[key]) :
               saved[key][i].vectors.shape[2] = saved[key][1].vectors.shape[2]) =>
            OneDim(key)

\* two calls succeeded with widths 2 and 1, and the load then failed
MixedWidthsLoaded ==
    /\ ret.op = "load_embeddings_dir" /\ ret.status = "ValueError"
    /\ Len(saved[ret.key]) = 2
    /\ saved[ret.key][1].part # saved[ret.key][2].part
    /\ saved[ret.key][1].vectors.shape[2] = 2
    /\ saved[ret.key][2].vectors.shape[2] = 1

\* two calls of one width, one descriptor dim
OneWidthSaved ==
    \E key \in Keys :
        /\ Len(saved[key]) = 2 /\ Len(ManifestParts(manifest[key])) = 2
        /\ saved[key][1].vectors.shape[2] = saved[key][2].vectors.shape[2]
        /\ OneDim(key)

----------------------------------------------------------------------------
(* Claims about the candidates and the page of a search (SpecEngine) *)

\* the last call was a search that had a backend, whose index holds fewer
\* rows than the search asks for
FewerRowsThanAsked ==
    /\ IsSearch /\ last.backend.exists
    /\ last.backend.index.ntotal < OverFetch(last.req)

\* the backend's result is its rows followed by sentinels, the candidates
\* are the ids of the rows alone, and the search answers
SentinelsDropped ==
    /\ last.status = "ok"
    /\ Len(last.idxs) = OverFetch(last.req)
    /\ \A j \in 1..Len(last.idxs) :
          IF j <= last.backend.index.ntotal
          THEN last.idxs[j] >= 0 /\ last.idxs[j] < Len(last.backend.ids)
          ELSE last.idxs[j] < 0
    /\ Len(last.doc_ids) = last.backend.index.ntotal
    /\ \A p \in 1..Len(last.doc_ids) : last.doc_ids[p] = last.backend.ids[last.idxs[p] + 1]
    /\ \A c \in 1..Len(last.metaCalls) : last.metaCalls[c].doc_ids = last.doc_ids

\* C23: when the index holds fewer rows than the over-fetch count, the
\* backend result is padded with negative row indices; search drops them
\* before it looks up the id mapping and returns a response, raising nothing.
C23_Sentinels == FewerRowsThanAsked => SentinelsDropped

\* the same for the indexes that kept the width of the vectors
SentinelsOverIndexesWithColumns ==
    (FewerRowsThanAsked /\ last.backend.index.d > 0) => SentinelsDropped

\* a result with a sentinel, answered with a hit
SentinelSkipped ==
    /\ FewerRowsThanAsked /\ last.status = "ok"
    /\ \E j \in 1..Len(last.idxs) : last.idxs[j] < 0
    /\ Len(last.response.items) > 0

\* fewer rows than asked for, and the search raised
ShortIndexRaised ==
    /\ FewerRowsThanAsked /\ last.status = "AssertionError"
    /\ last.backend.index.ntotal = 0

\* the metadata lookup was made and returned a record for every candidate
AllCandidatesKnown ==
    /\ IsSearch /\ Len(last.metaCalls) = 1
    /\ \A p \in 1..Len(last.doc_ids) : HasRecord(last.doc_ids[p])

\* C24: if the index holds at least page * size rows and the metadata
\* lookup returns a record for every candidate, the page returned holds
\* exactly size items.
C24_FullPage ==
    (/\ AllCandidatesKnown
     /\ last.backend.index.ntotal >= last.req.page * last.req.size) =>
        /\ last.status = "ok"
        /\ Len(last.response.items) = last.req.size

\* a full second page, beyond top_k
C24_Witness ==
    /\ AllCandidatesKnown /\ last.status = "ok"
    /\ last.req.page = 2 /\ last.req.top_k < last.req.page * last.req.size
    /\ last.backend.index.ntotal >= last.req.page * last.req.size
    /\ Len(last.response.items) = last.req.size

\* the search for page p of the last request, on the backend that served it
PageOf(p) ==
    Retrieve([NoTrace([last.req EXCEPT !.page = p]) EXCEPT
                 !.encoderCalls = 1, !.key = last.key, !.backend = last.backend],
             EncodeTextQuery(IF last.req.query = {} THEN "" ELSE The(last.req.query),
                             last.req.model).vec)

HitIds(items) == [n \in 1..Len(items) |-> items[n].doc_id]

\* the doc ids shown on pages 1..P, in order
ShownOn(P) == Concat([p \in 1..P |-> HitIds(PageOf(p).response.items)])

\* the candidates among the backend's first n results that have a record
KnownAmongFirst(n) ==
    LET found == BackendSearch(last.backend,
                               EncodeTextQuery(IF last.req.query = {} THEN ""
                                               ELSE The(last.req.query),
                                               last.req.model).vec, n)
        doc_ids == CandidateIds(last.backend.ids, found.idxs).doc_ids
        meta_map == FetchMetadata(doc_ids, last.req.filters)
    IN  SelectSeq(doc_ids, LAMBDA d : d \in DOMAIN meta_map)

Count(s, d) == Cardinality({i \in 1..Len(s) : s[i] = d})

IdsOf(s) == {s[i] : i \in 1..Len(s)}

NoneSkipped(P) ==
    \E shown \in {ShownOn(P)}, due \in {KnownAmongFirst(P * last.req.size)} :
        \A d \in IdsOf(due) : Count(shown, d) >= Count(due, d)

NoneTwice(P) ==
    \E shown \in {ShownOn(P)} :
        \A d \in IdsOf(shown) : Count(shown, d) <= Count(last.backend.ids, d)

\* C25: for a fixed query, top_k, size and filters over an unchanged index
\* and metadata store, pages 1..P requested in turn show every candidate
\* that is among the backend's first P * size results and has a metadata
\* record on exactly one of those pages: none is skipped, none shown twice.
C25_PagesCover ==
    Answered => \A P \in 1..MaxPage : NoneSkipped(P) /\ NoneTwice(P)

\* the pages cover the candidates when top_k reaches the last page asked for
PagesCoverWithinTopK ==
    Answered =>
        \A P \in 1..MaxPage :
            /\ last.req.top_k >= P * last.req.size => NoneSkipped(P)
            /\ NoneTwice(P)

\* the best result has no record and the second has one: with top_k = 1 and
\* size = 1 the second is on neither page 1 nor page 2
CandidateSkipped ==
    /\ Answered /\ last.req.top_k = 1 /\ last.req.size = 1
    /\ Len(KnownAmongFirst(2)) = 1
    /\ ShownOn(2) = <<>>

\* two full pages under a top_k that covers both
TwoPagesShown ==
    /\ Answered /\ last.req.top_k >= 2 /\ last.req.size = 1
    /\ Len(ShownOn(2)) = 2
    /\ NoneSkipped(2)

\* the positions of the backend result that hold a row whose id has a
\* metadata record, in order
KeptPositions ==
    SelectSeq([j \in 1..Len(last.idxs) |-> j],
              LAMBDA j : /\ last.idxs[j] >= 0
                         /\ HasRecord(last.backend.ids[last.idxs[j] + 1]))

\* C26: each hit's score is the score the backend returned at the result
\* position of the row that was mapped to the hit's doc_id, also when the
\* result holds sentinels and when earlier candidates were dropped by the
\* metadata join.
C26_ScoresAligned ==
    Answered =>
        /\ Len(last.kept) = Len(KeptPositions)
        /\ \A n \in 1..Len(last.kept) :
              /\ last.kept[n].doc_id = last.backend.ids[last.idxs[KeptPositions[n]] + 1]
              /\ last.kept[n].score = last.scores[KeptPositions[n]]
        /\ \A n \in 1..Len(last.response.items) :
              \E m \in 1..Len(last.kept) : last.response.items[n] = last.kept[m]

\* the best candidate was dropped: the first hit has the score of the
\* second position
C26_Witness ==
    /\ Answered
    /\ Len(last.doc_ids) > 1 /\ ~HasRecord(last.doc_ids[1])
    /\ Len(last.response.items) > 0
    /\ last.response.items[1].score = last.scores[2]
    /\ last.scores[2] # last.scores[1]

\* a result with sentinels, and a hit with the score of its position
SentinelScored ==
    /\ Answered
    /\ \E j \in 1..Len(last.idxs) : last.idxs[j] < 0
    /\ Len(last.response.items) = 2
    /\ last.response.items[2].score = last.scores[2]
    /\ last.scores[2] # last.scores[1]

----------------------------------------------------------------------------
(* Claims about the descriptors and the partitions they name (Spec) *)

\* what load_embeddings_dir gets from _load_part for the i-th descriptor
PartRead(key, i) ==
    LoadPart(PartExt(partFiles[key], manifest[key].parts[i].part), FileRead(key, i))

DescriptorMatches(key, i) ==
    \E part \in {PartRead(key, i)} :
        /\ Ndim(part.vecs) = 2
        /\ manifest[key].parts[i].count = part.vecs.shape[1]
        /\ manifest[key].parts[i].dim = part.vecs.shape[2]

DescriptorsMatch(key) ==
    /\ \A i \in 1..Len(ManifestParts(manifest[key])) : DescriptorMatches(key, i)
    /\ (ret.op = "load_embeddings_dir" /\ ret.key = key /\ ret.status = "ok") =>
           ret.vecs.shape[1] = ManifestRows(manifest[key])

\* C27: after any sequence of save_part calls for one (kind, model), count
\* and dim of every descriptor are the rows and the width of the partition
\* load_embeddings_dir reads for its part name, so the rows loaded are as
\* many as the descriptors count in total.
C27_DescriptorsMatch == \A key \in Keys : DescriptorsMatch(key)

\* the same after calls with distinct part names, none writing a matrix
\* without rows as parquet
DescriptorsMatchOverDistinctPartsWithRows ==
    \A key \in Keys :
        (/\ DistinctParts(key)
         /\ \A i \in 1..Len(saved[key]) :
               saved[key][i].fmt = "parquet" => Len(saved[key][i].ids) > 0) =>
            DescriptorsMatch(key)

\* one zero-row part saved as parquet: the load returns one row
ZeroRowParquetCounted ==
    /\ ret.op = "load_embeddings_dir" /\ ret.status = "ok"
    /\ Len(saved[ret.key]) = 1 /\ saved[ret.key][1].fmt = "parquet"
    /\ ManifestRows(manifest[ret.key]) = 0
    /\ ret.vecs.shape[1] = 1

\* a part name saved again with fewer rows: the first descriptor counts the
\* rows of a file that is gone
StaleDescriptor ==
    \E key \in Keys :
        /\ Len(saved[key]) = 2 /\ ~DistinctParts(key)
        /\ saved[key][1].fmt = saved[key][2].fmt
        /\ manifest[key].parts[1].count = 2
        /\ PartRead(key, 1).vecs.shape[1] = 1

\* two parts with rows, loaded: as many rows as the descriptors count
CountedRowsLoaded ==
    /\ ret.op = "load_embeddings_dir" /\ ret.status = "ok"
    /\ Len(saved[ret.key]) = 2 /\ DistinctParts(ret.key)
    /\ ret.vecs.shape[1] = ManifestRows(manifest[ret.key])
    /\ ret.vecs.shape[1] = 3

----------------------------------------------------------------------------
(* Claims about the order of the writes of save_part (SpecSaves) *)

\* one process alone has called save_part so far
SingleWriter(p) == \A q \in Procs \ {p} : inflight[q].pc = "idle"

\* the manifest of key can be read, and names no part without a file
PartsOnDisk(key) ==
    (manifest[key].exists /\ ~IsTorn(manifest[key])) =>
        /\ \A i \in 1..Len(ManifestParts(manifest[key])) :
              PartExt(partFiles[key], manifest[key].parts[i].part) # "none"
        /\ LoadEmbeddings(manifest[key], partFiles[key]).status # "FileNotFoundError"

\* C28: with a single writer, at every point during and after any sequence
\* of save_part calls, every descriptor of the manifest names a part whose
\* partition file exists, the file being written before the manifest is
\* updated; a load of what the store wrote never fails on a missing part.
C28_PartsOnDisk ==
    \A p \in Procs : SingleWriter(p) => \A key \in Keys : PartsOnDisk(key)

\* the writer is between the write of its second partition file and the
\* update of the manifest, which lists the first
C28_Witness ==
    /\ SingleWriter("p1")
    /\ inflight["p1"].pc \in {"exists", "read", "write"}
    /\ \E key \in Keys :
          /\ inflight["p1"].key = key
          /\ Len(saved[key]) = 2
          /\ manifest[key].exists /\ ~IsTorn(manifest[key])
          /\ Len(ManifestParts(manifest[key])) = 1
          /\ LoadEmbeddings(manifest[key], partFiles[key]).status = "ok"

----------------------------------------------------------------------------
(* Claims about the size of a response (SpecEngine) *)

\* C29: for every request with positive top_k, page and size, the response
\* has len(items) <= size, len(items) <= total and
\* total <= min(max(top_k, page * size), rows of the index); top_k alone
\* caps neither total nor the number of items.
C29_ResponseBounds ==
    (Answered /\ last.req.top_k > 0 /\ last.req.page > 0 /\ last.req.size > 0) =>
        /\ Len(last.response.items) <= last.req.size
        /\ Len(last.response.items) <= last.response.total
        /\ last.response.total <= Max(last.req.top_k, last.req.page * last.req.size)
        /\ last.response.total <= last.backend.index.ntotal

\* more hits in total, and more items on the page, than top_k
C29_Witness ==
    /\ Answered
    /\ last.response.total > last.req.top_k
    /\ Len(last.response.items) > last.req.top_k

----------------------------------------------------------------------------
(* Claims about a part that has both files (Spec) *)

\* the call whose rows are loaded for a part name: the latest that wrote
\* {part}.npz, or else the latest that wrote {part}.parquet
CallLoaded(key, part) ==
    IF CallsFor(key, part, "npz") # {} THEN saved[key][LatestCall(key, part, "npz")]
    ELSE saved[key][LatestCall(key, part, "parquet")]

\* C30: when both {part}.npz and {part}.parquet exist for a descriptor,
\* load_embeddings_dir reads the .npz file whichever was written last: a
\* part saved as npz and saved again under the same name as parquet is
\* loaded with the rows of the npz save.
C30_NpzPreferred ==
    (ret.op = "load_embeddings_dir" /\ ret.status = "ok") =>
        LET key == ret.key
            n == Len(ManifestParts(manifest[key]))
        IN  /\ ret.ids = Concat([i \in 1..n |->
                                    CallLoaded(key, manifest[key].parts[i].part).ids])
            /\ (\A i \in 1..n : CallsFor(key, manifest[key].parts[i].part, "npz") # {}) =>
                   ret.vecs.data =
                       Concat([i \in 1..n |->
                                  MapSeq(CallLoaded(key, manifest[key].parts[i].part)
                                             .vectors.data, F32Row)])

\* a part saved as npz, then as parquet with other rows, then loaded: both
\* descriptors give the rows of the npz save
C30_Witness ==
    /\ ret.op = "load_embeddings_dir" /\ ret.status = "ok"
    /\ Len(saved[ret.key]) = 2 /\ ~DistinctParts(ret.key)
    /\ saved[ret.key][1].fmt = "npz" /\ saved[ret.key][2].fmt = "parquet"
    /\ saved[ret.key][1].ids # saved[ret.key][2].ids
    /\ partFiles[ret.key][<<saved[ret.key][1].part, "npz">>].exists
    /\ partFiles[ret.key][<<saved[ret.key][1].part, "parquet">>].exists
    /\ ret.ids = saved[ret.key][1].ids \o saved[ret.key][1].ids

====
